---- MODULE Spec2Model ----
(***************************************************************************)
(* Model of the BIZMAP upload / geocoding pipeline.                        *)
(*                                                                         *)
(*   - the upload hook (useUploadManager.ts): geocodeAll, startUpload,     *)
(*     geocodeRows, addFiles                                               *)
(*   - the Geocode Client (lib/geocode.ts): geocodeOnce                    *)
(*   - the geocode-run endpoint (api/zip-metrics/route.ts, second half)    *)
(*   - the Address Parser (lib/addresses.ts): parseFullAddressToParts      *)
(*                                                                         *)
(* JavaScript strings are sequences of one-character strings, so that      *)
(* trim, startsWith, includes, join and the regular expressions are        *)
(* computed and not assumed.  Row indices are 0-based as in the code;      *)
(* slot idx of an array is element idx+1 of the TLA+ sequence.             *)
(***************************************************************************)
EXTENDS Integers, Sequences, FiniteSets, TLC

VARIABLES
  \* ---- React state of useUploadManager ----
  csvData,            \* useState<CSVRow[]>            (line 289)
  isGeocoding,        \* useState(false)               (line 301)
  geocodingProgress,  \* useState<{current,total}|null>(line 302)
  \* ---- one startUpload call and its geocodeAll run ----
  upPc,               \* "idle" | "running" : where startUpload stands
  concurrency,        \* geocodeAll's concurrency parameter
  rows,               \* geocodeAll's rows argument (the csvData of the call)
  rowsNeeding,        \* startUpload's rowsNeeding.length
  i,                  \* geocodeAll's shared cursor
  out,                \* geocodeAll's output array
  workers,            \* the worker() promises: [pc, idx, r]
  raised,             \* an exception left geocodeAll
  \* ---- history of the run (observations, not program state) ----
  passNo,             \* startUpload calls so far
  started,            \* worker() calls of this run
  claimCount,         \* per index: times it was claimed by a worker
  reqCount,           \* per index: provider requests sent
  failedReq,          \* indices whose request failed
  progressLog,        \* the done values handed to onProgress, in call order
  missedPrev,         \* names of the rows that got no result in the pass before this one
  \* ---- a direct call of geocodeOnce ----
  once,               \* [token, address, net, pc, result]
  \* ---- the geocode-run endpoint and what it works on ----
  mapboxToken,        \* process.env.MAPBOX_TOKEN
  googleKey,          \* process.env.GOOGLE_MAPS_API_KEY
  jobs,               \* the jobs table; job id k is element k
  limit,              \* line 168: the clamped limit of the request
  runPc,              \* "idle" | "loop" | "count" : where POST stands
  fetched,            \* jobsToGeocode: the ids the select returned, in order
  pos,                \* position of the for loop in jobsToGeocode
  success,            \* line 202
  failed,             \* line 203
  response,           \* the last response of the endpoint
  runNo,              \* POST requests so far
  lookups,            \* geocodeOnce calls of this request
  updates,            \* store updates of this request
  \* ---- a direct call of parseFullAddressToParts ----
  parse,              \* [input, pc, result]
  \* ---- addFiles ----
  userId,             \* the hook's userId argument
  files,              \* per uploaded file: the addFiles call and its geocodeRows
  \* ---- a direct call of normalizeUSAddress, and a second call on its result ----
  norm,               \* [input, k, whole, pc, result, again]
  \* ---- the import endpoint ----
  imp,                \* one POST /api/import request
  \* ---- the report page ----
  report,             \* the rows, the filter and sort settings, and what is shown
  \* ---- the table's row operations ----
  retry,              \* one retryRow call: [pc, rowIndex, name, address]
  lastEdit            \* history: the last row operation applied to csvData

geoVars == <<csvData, isGeocoding, geocodingProgress, upPc, concurrency, rows,
             rowsNeeding, i, out, workers, raised, passNo, started, claimCount,
             reqCount, failedReq, progressLog, missedPrev>>

onceVars == <<once>>

runVars == <<mapboxToken, googleKey, jobs, limit, runPc, fetched, pos, success, failed,
             response, runNo, lookups, updates>>

parseVars == <<parse>>

addVars == <<userId, files>>

normVars == <<norm>>

importVars == <<imp>>

reportVars == <<report>>

editVars == <<retry, lastEdit>>

vars == <<geoVars, onceVars, runVars, parseVars, addVars, normVars, importVars, reportVars, editVars>>

-----------------------------------------------------------------------------
(* Bounds *)
MaxRows == 2
MaxConcurrency == 1
MaxPasses == 2
MaxJobs == 2
MaxRuns == 2
MaxTokens == 4
MaxWords == 3
MaxImportRows == 2
MaxReportRows == 3

-----------------------------------------------------------------------------
(* JavaScript strings and values *)

Min(a, b) == IF a <= b THEN a ELSE b
Max(a, b) == IF a >= b THEN a ELSE b

\* The white space String.prototype.trim removes (the alphabet has the space).
IsSpace(c) == c = " "

RECURSIVE TrimStart(_)
TrimStart(s) ==
  IF s = <<>> THEN <<>>
  ELSE IF IsSpace(Head(s)) THEN TrimStart(Tail(s)) ELSE s

RECURSIVE TrimEnd(_)
TrimEnd(s) ==
  IF s = <<>> THEN <<>>
  ELSE IF IsSpace(s[Len(s)]) THEN TrimEnd(SubSeq(s, 1, Len(s) - 1)) ELSE s

\* String.prototype.trim
Trim(s) == TrimEnd(TrimStart(s))

\* Array.prototype.filter(Boolean) on an array of strings
RECURSIVE FilterBoolean(_)
FilterBoolean(parts) ==
  IF parts = <<>> THEN <<>>
  ELSE IF Head(parts) # <<>> THEN <<Head(parts)>> \o FilterBoolean(Tail(parts))
       ELSE FilterBoolean(Tail(parts))

\* Array.prototype.join(', ')
RECURSIVE JoinComma(_)
JoinComma(parts) ==
  IF parts = <<>> THEN <<>>
  ELSE IF Len(parts) = 1 THEN parts[1]
       ELSE parts[1] \o <<",", " ">> \o JoinComma(Tail(parts))

\* String.prototype.startsWith
StartsWith(s, p) == Len(s) >= Len(p) /\ SubSeq(s, 1, Len(p)) = p

\* String.prototype.includes
Includes(s, p) == \E k \in 1..(Len(s) - Len(p) + 1) : SubSeq(s, k, k + Len(p) - 1) = p

\* An optional JSON value: absent (undefined) or present with a value.
NoNum == [def |-> FALSE, val |-> 0]
SomeNum(n) == [def |-> TRUE, val |-> n]
NoStr == [def |-> FALSE, val |-> <<>>]
SomeStr(s) == [def |-> TRUE, val |-> s]

\* JavaScript truthiness of an optional number: undefined and 0 are falsy.
TruthyNum(o) == o.def /\ o.val # 0

\* String(n) for the coordinates the provider model returns.
NumToString(n) ==
  CASE n = 0 -> "0"
    [] n = 35 -> "35"
    [] n = -80 -> "-80"
    [] OTHER -> "NaN"

-----------------------------------------------------------------------------
(* Rows of the upload table *)

\* A CSVRow.  name stands for every column the geocoder leaves alone; the
\* loader gives row k of a file the name k.  lat, lng and needs_geocode are
\* "" when the column is absent or empty.
Row(n, full, street, zip, lat, lng, ng) ==
  [name |-> n, full_address |-> full, street |-> street, city |-> <<>>,
   state |-> <<>>, zip |-> zip, lat |-> lat, lng |-> lng, needs_geocode |-> ng]

\* The kinds of row a loaded file holds.
RowKinds(n) ==
  { Row(n, <<"A">>, <<>>, <<>>, "", "", ""),            \* full address, no coordinates
    Row(n, <<>>, <<"S">>, <<"2">>, "35", "-80", ""),    \* street and zip, coordinates from the file
    Row(n, <<" ">>, <<>>, <<>>, "", "", ""),            \* blank full address
    Row(n, <<>>, <<>>, <<"2">>, "", "", "") }           \* a zip and nothing else

RECURSIVE Tables(_)
\* Every table of exactly n rows, row k named k.
Tables(n) ==
  IF n = 0 THEN { <<>> }
  ELSE { Append(t, r) : t \in Tables(n - 1), r \in RowKinds(n - 1) }

LoadedTables == UNION { Tables(n) : n \in 0..MaxRows }

-----------------------------------------------------------------------------
(* geocodeAll (useUploadManager.ts 110-169) *)

\* startUpload's makeAddress argument (line 528)
makeAddress(r) ==
  IF r.full_address # <<>> THEN r.full_address
  ELSE JoinComma(FilterBoolean(<<r.street, r.city, r.state, r.zip>>))

\* The provider's answers to one fetch.
FetchOutcomes == {"throw", "notok", "ok"}

\* What res.json() yields for an OK response (or it throws).
BodyOutcomes ==
  { [thrown |-> TRUE, lat |-> NoNum, lng |-> NoNum, zip |-> NoStr],
    [thrown |-> FALSE, lat |-> SomeNum(35), lng |-> SomeNum(-80), zip |-> SomeStr(<<"9">>)],
    [thrown |-> FALSE, lat |-> SomeNum(35), lng |-> SomeNum(-80), zip |-> NoStr],
    [thrown |-> FALSE, lat |-> SomeNum(0), lng |-> SomeNum(-80), zip |-> NoStr],
    [thrown |-> FALSE, lat |-> NoNum, lng |-> NoNum, zip |-> NoStr] }

\* lines 150-158: every failure path writes { ...r, needs_geocode: 'false' }
MarkNoResult(r) == [r EXCEPT !.needs_geocode = "false"]

\* lines 141-152: the OK branch
ApplyBody(r, body) ==
  IF TruthyNum(body.lat) /\ TruthyNum(body.lng)
  THEN [r EXCEPT !.lat = NumToString(body.lat.val),
                 !.lng = NumToString(body.lng.val),
                 !.zip = IF body.zip.def THEN body.zip.val ELSE r.zip,
                 !.needs_geocode = "false"]
  ELSE MarkNoResult(r)

\* A geocoder that appends each result as it arrives (out.push) instead of
\* writing it to the slot of its index.
WriteSlotAppend(idx) == Len(progressLog) + 1

\* lines 143-157: out[idx] = ..., the slot of the claimed index
WriteSlot(idx) == idx + 1

\* A pool that always starts `concurrency` workers.
WorkerCountNoMin(c, total) == c

\* line 166: Math.min(concurrency, total)
WorkerCount(c, total) == Min(c, total)

\* A loop that ends the worker at a row with an empty address (break for
\* continue).
RECURSIVE ClaimLoopBreak(_, _, _)
ClaimLoopBreak(cur, outv, skipped) ==
  IF cur >= Len(outv)
  THEN [i |-> cur + 1, idx |-> cur, pc |-> "done", skipped |-> skipped]
  ELSE IF Trim(makeAddress(outv[cur + 1])) = <<>>
       THEN [i |-> cur + 1, idx |-> cur, pc |-> "done", skipped |-> Append(skipped, cur)]
       ELSE [i |-> cur + 1, idx |-> cur, pc |-> "fetch", skipped |-> skipped]

\* A claim that reads the cursor and leaves it where it was (idx = i for
\* idx = i++): the next worker reads the same index.
RECURSIVE ClaimLoopShared(_, _, _)
ClaimLoopShared(cur, outv, skipped) ==
  IF cur >= Len(outv)
  THEN [i |-> cur + 1, idx |-> cur, pc |-> "done", skipped |-> skipped]
  ELSE IF Trim(makeAddress(outv[cur + 1])) = <<>>
       THEN ClaimLoopShared(cur + 1, outv, Append(skipped, cur))
       ELSE [i |-> cur, idx |-> cur, pc |-> "fetch", skipped |-> skipped]

\* lines 122-131: the loop from its top to the next await.  The worker claims
\* indices (idx = i++) until one has a non-empty address or the rows are
\* exhausted; a row with an empty address is reported to onProgress and
\* skipped without a write and without a delay.
RECURSIVE ClaimLoop(_, _, _)
ClaimLoop(cur, outv, skipped) ==
  IF cur >= Len(outv)
  THEN [i |-> cur + 1, idx |-> cur, pc |-> "done", skipped |-> skipped]
  ELSE IF Trim(makeAddress(outv[cur + 1])) = <<>>
       THEN ClaimLoop(cur + 1, outv, Append(skipped, cur))
       ELSE [i |-> cur + 1, idx |-> cur, pc |-> "fetch", skipped |-> skipped]

\* The observations of one ClaimLoop: the indices it claimed.
Claimed(c) == {c.skipped[k] : k \in 1..Len(c.skipped)} \cup
              (IF c.pc = "fetch" THEN {c.idx} ELSE {})

\* onProgress(idx + 1, total) for every skipped index, in order
RECURSIVE ProgressOfSkipped(_)
ProgressOfSkipped(skipped) ==
  IF skipped = <<>> THEN <<>>
  ELSE <<Head(skipped) + 1>> \o ProgressOfSkipped(Tail(skipped))

NoRow == Row(0, <<>>, <<>>, <<>>, "", "", "")

\* A worker after a ClaimLoop: r is the row it read at line 126.
WorkerOf(c, outv) ==
  [pc |-> c.pc, idx |-> c.idx, r |-> IF c.pc = "fetch" THEN outv[c.idx + 1] ELSE NoRow]

\* The part of the run a worker changes between two awaits, as one value.
RunNow ==
  [i |-> i, workers |-> workers, claimCount |-> claimCount, reqCount |-> reqCount,
   progressLog |-> progressLog, progress |-> geocodingProgress, started |-> started]

\* Worker w runs from the top of its loop to its next await.
ResumeWorker(st, w, outv) ==
  LET c == ClaimLoop(st.i, outv, <<>>) IN
  [st EXCEPT
     !.i = c.i,
     !.workers = [k \in 1..Max(w, Len(st.workers)) |->
                    IF k = w THEN WorkerOf(c, outv) ELSE st.workers[k]],
     !.claimCount = [k \in DOMAIN st.claimCount |->
                       st.claimCount[k] + (IF k \in Claimed(c) THEN 1 ELSE 0)],
     !.reqCount = [k \in DOMAIN st.reqCount |->
                     st.reqCount[k] + (IF c.pc = "fetch" /\ k = c.idx THEN 1 ELSE 0)],
     !.progressLog = st.progressLog \o ProgressOfSkipped(c.skipped),
     !.progress = IF c.skipped = <<>> THEN st.progress
                  ELSE [current |-> c.skipped[Len(c.skipped)] + 1, total |-> Len(outv)]]

\* line 166: Array.from({length: n}, () => worker()) calls worker() n times in
\* order; each call runs synchronously to its first await.
RECURSIVE SpawnWorkers(_, _, _)
SpawnWorkers(n, st, outv) ==
  IF n = 0 THEN st
  ELSE LET before == SpawnWorkers(n - 1, st, outv) IN
       ResumeWorker([before EXCEPT !.started = before.started + 1], n, outv)

\* The run's variables take the values of st.
SetRun(st) ==
  /\ i' = st.i
  /\ workers' = st.workers
  /\ claimCount' = st.claimCount
  /\ reqCount' = st.reqCount
  /\ progressLog' = st.progressLog
  /\ geocodingProgress' = st.progress
  /\ started' = st.started

\* onProgress(idx + 1, total) at line 160, as startUpload passes it (line 529)
ReportProgress(st, idx, total) ==
  [st EXCEPT !.progressLog = Append(st.progressLog, idx + 1),
             !.progress = [current |-> idx + 1, total |-> total]]

-----------------------------------------------------------------------------
(* startUpload (useUploadManager.ts 507-551) *)

NoProgress == [current |-> -1, total |-> -1]     \* geocodingProgress === null

\* A filter that leaves out a row whose needs_geocode was cleared to
\* "false": the at-most-once policy.
NeedsGeocodingOnce(row) ==
  LET hasAddress == row.street # <<>> \/ row.city # <<>> \/ row.full_address # <<>>
      needsGeocode == row.needs_geocode = "true"
      missingCoords == row.lat = "" \/ row.lng = ""
  IN hasAddress /\ (needsGeocode \/ (missingCoords /\ row.needs_geocode # "false"))

\* lines 512-517: the filter that builds rowsNeeding
NeedsGeocoding(row) ==
  LET hasAddress == row.street # <<>> \/ row.city # <<>> \/ row.full_address # <<>>
      needsGeocode == row.needs_geocode = "true"
      missingCoords == row.lat = "" \/ row.lng = ""
  IN hasAddress /\ (needsGeocode \/ missingCoords)

CountNeeding(data) == Cardinality({k \in 1..Len(data) : NeedsGeocoding(data[k])})

ZeroCounts(n) == [k \in 0..(n - 1) |-> 0]

\* Rows of a finished pass that were asked for and got no result: the
\* coordinates are still unset and needs_geocode was cleared.
MissedNames(outv, noResult) ==
  {outv[k + 1].name :
     k \in {f \in noResult : outv[f + 1].lat = "" /\ outv[f + 1].needs_geocode = "false"}}

\* The user presses the Geocode button (enabled while isGeocoding is false,
\* part_006 400-410).  Runs to the first await: either the early return of
\* line 519-522 (and the finally block), or geocodeAll's synchronous start.
StartUpload ==
  /\ upPc = "idle"
  /\ ~isGeocoding
  /\ passNo' = passNo + 1
  /\ rowsNeeding' = CountNeeding(csvData)
  /\ raised' = FALSE
  /\ failedReq' = {}
  /\ rows' = csvData
  /\ out' = csvData
  /\ missedPrev' = IF passNo >= 1 /\ rowsNeeding > 0 /\ ~raised
                   THEN MissedNames(out, failedReq) ELSE {}
  /\ UNCHANGED <<csvData, concurrency>>
  /\ UNCHANGED <<onceVars, runVars, parseVars, addVars, normVars, importVars, reportVars, editVars>>
  /\ IF CountNeeding(csvData) = 0
     THEN /\ isGeocoding' = FALSE
          /\ upPc' = "idle"
          /\ SetRun([i |-> 0, workers |-> <<>>, claimCount |-> ZeroCounts(Len(csvData)),
                     reqCount |-> ZeroCounts(Len(csvData)), progressLog |-> <<>>,
                     progress |-> NoProgress, started |-> 0])
     ELSE /\ isGeocoding' = TRUE
          /\ upPc' = "running"
          /\ SetRun(SpawnWorkers(WorkerCount(concurrency, Len(csvData)),
                     [i |-> 0, workers |-> <<>>, claimCount |-> ZeroCounts(Len(csvData)),
                      reqCount |-> ZeroCounts(Len(csvData)), progressLog |-> <<>>,
                      progress |-> [current |-> 0, total |-> CountNeeding(csvData)],
                      started |-> 0],
                     csvData))

\* A worker's try block ends without a result (lines 150-158), then line 160
\* and the pacing delay of line 162.
NoResultStep(w) ==
  LET wk == workers[w] IN
  /\ out' = [out EXCEPT ![WriteSlot(wk.idx)] = MarkNoResult(wk.r)]
  /\ failedReq' = failedReq \cup {wk.idx}
  /\ SetRun(ReportProgress([RunNow EXCEPT !.workers[w].pc = "pace"], wk.idx, Len(out)))
  /\ UNCHANGED raised

\* A worker whose catch block lets the exception go: the worker's promise
\* rejects and with it Promise.all.
CatchRethrow(w) ==
  /\ SetRun([RunNow EXCEPT !.workers[w].pc = "rejected"])
  /\ raised' = TRUE
  /\ UNCHANGED <<out, failedReq>>

\* line 156: catch { out[idx] = { ...r, needs_geocode: 'false' } }: whatever
\* fetch or res.json() threw stays inside the worker.
CatchStep(w) == NoResultStep(w)

\* The fetch of worker w settles (line 134).
FetchReturn(w) ==
  /\ upPc = "running"
  /\ w \in 1..Len(workers)
  /\ workers[w].pc = "fetch"
  /\ \E o \in FetchOutcomes :
       CASE o = "throw" -> CatchStep(w)
         [] o = "notok" -> NoResultStep(w)
         [] o = "ok" -> /\ SetRun([RunNow EXCEPT !.workers[w].pc = "json"])
                        /\ UNCHANGED <<out, failedReq, raised>>
  /\ UNCHANGED <<csvData, isGeocoding, upPc, concurrency, rows, rowsNeeding, passNo, missedPrev>>
  /\ UNCHANGED <<onceVars, runVars, parseVars, addVars, normVars, importVars, reportVars, editVars>>

\* res.json() of worker w settles (line 141).
JsonReturn(w) ==
  /\ upPc = "running"
  /\ w \in 1..Len(workers)
  /\ workers[w].pc = "json"
  /\ \E body \in BodyOutcomes :
       LET wk == workers[w] IN
       IF body.thrown THEN CatchStep(w)
       ELSE /\ out' = [out EXCEPT ![WriteSlot(wk.idx)] = ApplyBody(wk.r, body)]
            /\ failedReq' = IF ApplyBody(wk.r, body) = MarkNoResult(wk.r)
                            THEN failedReq \cup {wk.idx} ELSE failedReq
            /\ SetRun(ReportProgress([RunNow EXCEPT !.workers[w].pc = "pace"], wk.idx, Len(out)))
            /\ UNCHANGED raised
  /\ UNCHANGED <<csvData, isGeocoding, upPc, concurrency, rows, rowsNeeding, passNo, missedPrev>>
  /\ UNCHANGED <<onceVars, runVars, parseVars, addVars, normVars, importVars, reportVars, editVars>>

\* The pacing delay of worker w ends (line 162) and its loop goes round.
PaceDone(w) ==
  /\ upPc = "running"
  /\ w \in 1..Len(workers)
  /\ workers[w].pc = "pace"
  /\ SetRun(ResumeWorker(RunNow, w, out))
  /\ UNCHANGED <<csvData, isGeocoding, upPc, concurrency, rows, rowsNeeding, out,
                 raised, passNo, failedReq, missedPrev>>
  /\ UNCHANGED <<onceVars, runVars, parseVars, addVars, normVars, importVars, reportVars, editVars>>

AllWorkersDone == \A w \in 1..Len(workers) : workers[w].pc = "done"

\* Promise.all settles (line 167): it resolves when every worker has
\* returned, and rejects as soon as one worker has thrown.  startUpload then
\* runs lines 533-546 (resolved) and its finally block, lines 547-550.
FinishUpload ==
  /\ upPc = "running"
  /\ AllWorkersDone \/ raised
  /\ csvData' = IF raised THEN csvData ELSE out
  /\ geocodingProgress' = NoProgress
  /\ isGeocoding' = FALSE
  /\ upPc' = "idle"
  /\ UNCHANGED <<concurrency, rows, rowsNeeding, i, out, workers, raised, passNo,
                 started, claimCount, reqCount, failedReq, progressLog, missedPrev>>
  /\ UNCHANGED <<onceVars, runVars, parseVars, addVars, normVars, importVars, reportVars, editVars>>

\* line 535: updated.filter((r) => r.lat && r.lng).length, and line 536, for
\* the pass that returned last
successCount == Cardinality({k \in 1..Len(out) : out[k].lat # "" /\ out[k].lng # ""})
failedCount == rowsNeeding - successCount

\* geocodeAll's concurrency: startUpload passes 5 (line 530); the smaller
\* values cover the parameter's other uses.
UploadConcurrency == 5
Concurrencies == (1..MaxConcurrency) \cup {UploadConcurrency}

\* The state once a file is loaded (addFiles, line 418) with geocodeAll's
\* concurrency c.
LoadedWith(c) ==
  /\ csvData \in LoadedTables
  /\ isGeocoding = FALSE
  /\ geocodingProgress = NoProgress
  /\ upPc = "idle"
  /\ concurrency = c
  /\ rows = <<>>
  /\ rowsNeeding = 0
  /\ i = 0
  /\ out = <<>>
  /\ workers = <<>>
  /\ raised = FALSE
  /\ passNo = 0
  /\ started = 0
  /\ claimCount = ZeroCounts(0)
  /\ reqCount = ZeroCounts(0)
  /\ failedReq = {}
  /\ progressLog = <<>>
  /\ missedPrev = {}

\* The steps of a geocodeAll run in flight.
RunStep ==
  \/ \E w \in 1..Len(workers) : FetchReturn(w)
  \/ \E w \in 1..Len(workers) : JsonReturn(w)
  \/ \E w \in 1..Len(workers) : PaceDone(w)
  \/ FinishUpload

-----------------------------------------------------------------------------
(* geocodeOnce (lib/geocode.ts 8-55) *)

\* The strings the token tests look for.
PkPrefix == <<"p", "k", ".">>
YourMark == <<"y", "o", "u", "r", "_">>
PlaceholderMark == <<"p", "l", "a", "c", "e", "h", "o", "l", "d", "e", "r">>

\* Values of an environment variable: unset, or a string.
MapboxTokens ==
  { NoStr,
    SomeStr(<<>>),
    SomeStr(PkPrefix \o <<"x">>),                       \* a public token
    SomeStr(<<" ">> \o PkPrefix \o <<"x">> \o <<" ">>), \* the same, padded
    SomeStr(<<"s", "k", ".", "x">>),                    \* a secret token: malformed for the client
    SomeStr(PkPrefix \o YourMark),                      \* pk.your_
    SomeStr(PlaceholderMark) }

GoogleKeys == { NoStr, SomeStr(<<"g">>) }

\* UTF-16 code units: "hi" is a high surrogate, "lo" a low surrogate, every
\* other element an ordinary character.
RECURSIVE WellFormedUTF16(_)
WellFormedUTF16(s) ==
  IF s = <<>> THEN TRUE
  ELSE IF Head(s) = "hi"
       THEN Len(s) >= 2 /\ s[2] = "lo" /\ WellFormedUTF16(Tail(Tail(s)))
       ELSE Head(s) # "lo" /\ WellFormedUTF16(Tail(s))

\* encodeURIComponent throws a URIError on a lone surrogate.
EncodeThrows(address) == ~WellFormedUTF16(address)

\* What the provider does with one request: fetch throws, the status is not
\* OK, resp.json() throws, or a body arrives.  center is features[0].center
\* (empty when there is no feature or no center), ctxZip the text of a
\* postcode context entry, propZip properties.postcode.
Net(kind, center, ctxZip, propZip) ==
  [kind |-> kind, center |-> center, ctxZip |-> ctxZip, propZip |-> propZip]

NetOutcomes ==
  { Net("fetchThrows", <<>>, NoStr, NoStr),
    Net("notOk", <<>>, NoStr, NoStr),
    Net("jsonThrows", <<>>, NoStr, NoStr),
    Net("ok", <<>>, NoStr, NoStr),
    Net("ok", <<-80>>, NoStr, NoStr),
    Net("ok", <<-80, 35>>, SomeStr(<<"9">>), SomeStr(<<"8">>)),
    Net("ok", <<-80, 35>>, NoStr, SomeStr(<<"8">>)),
    Net("ok", <<-80, 35>>, NoStr, NoStr) }

\* GeoResult, or the exception that leaves the call.
NullResult == [kind |-> "null", lat |-> 0, lng |-> 0, zip |-> NoStr]
Raised == [kind |-> "raise", lat |-> 0, lng |-> 0, zip |-> NoStr]
Coords(lat, lng, zip) == [kind |-> "coords", lat |-> lat, lng |-> lng, zip |-> zip]

\* lines 9-14: the client's own test of the token
ClientToken(env) == Trim(IF env.def THEN env.val ELSE <<>>)
ClientTokenBad(env) == ClientToken(env) = <<>> \/ ~StartsWith(ClientToken(env), PkPrefix)

\* lines 35-48: the zip of a feature
FeatureZip(net) ==
  IF net.ctxZip.def /\ net.ctxZip.val # <<>> THEN net.ctxZip
  ELSE IF net.propZip.def /\ net.propZip.val # <<>> THEN net.propZip
       ELSE NoStr

\* lines 21-54: the try block; whatever is thrown inside becomes null
TryFetch(net) ==
  CASE net.kind = "fetchThrows" -> NullResult
    [] net.kind = "notOk" -> NullResult
    [] net.kind = "jsonThrows" -> NullResult
    [] OTHER -> IF Len(net.center) < 2 THEN NullResult
                ELSE Coords(net.center[2], net.center[1], FeatureZip(net))

\* lines 16-19: the URL is built before the try block is entered
BuildUrl(address, net) == IF EncodeThrows(address) THEN Raised ELSE TryFetch(net)

geocodeOnce(env, address, net) ==
  IF ClientTokenBad(env) THEN NullResult ELSE BuildUrl(address, net)

\* Addresses handed to geocodeOnce.
OnceAddresses ==
  { <<>>, <<"M">>, <<"M", " ", "S">>, <<"hi", "lo">>, <<"M", "hi">>, <<"lo", "M">> }

\* A caller awaits geocodeOnce(address).
CallGeocodeOnce ==
  /\ once.pc = "called"
  /\ once' = [once EXCEPT !.pc = "settled",
                          !.result = geocodeOnce(once.token, once.address, once.net)]
  /\ UNCHANGED <<geoVars, runVars, parseVars, addVars, normVars, importVars, reportVars, editVars>>

-----------------------------------------------------------------------------
(* parseFullAddressToParts (lib/addresses.ts 13-79) *)

Uppers == <<"A", "B", "C", "D", "E", "F", "G", "H", "I", "J", "K", "L", "M", "N", "O", "P", "Q", "R", "S", "T", "U", "V", "W", "X", "Y", "Z">>
Lowers == <<"a", "b", "c", "d", "e", "f", "g", "h", "i", "j", "k", "l", "m", "n", "o", "p", "q", "r", "s", "t", "u", "v", "w", "x", "y", "z">>
Digits == {"0", "1", "2", "3", "4", "5", "6", "7", "8", "9"}

UpperSet == {Uppers[k] : k \in 1..Len(Uppers)}
LowerSet == {Lowers[k] : k \in 1..Len(Lowers)}

IsUpper(c) == c \in UpperSet
IsLower(c) == c \in LowerSet
IsDigit(c) == c \in Digits

\* \w of a regular expression
IsWordChar(c) == IsUpper(c) \/ IsLower(c) \/ IsDigit(c) \/ c = "_"

\* \b before position p of s (positions from 1)
WordBoundary(s, p) ==
  (p > 1 /\ p - 1 <= Len(s) /\ IsWordChar(s[p - 1])) # (p <= Len(s) /\ IsWordChar(s[p]))

\* the i flag
LowerOf == [c \in UpperSet |-> Lowers[CHOOSE k \in 1..Len(Uppers) : Uppers[k] = c]]
ToLower(c) == IF IsUpper(c) THEN LowerOf[c] ELSE c
LowerCase(s) == [k \in 1..Len(s) |-> ToLower(s[k])]

\* \d{n} at position a
DigitsAt(s, a, n) == a + n - 1 <= Len(s) /\ \A k \in a..(a + n - 1) : IsDigit(s[k])

\* \s*$ from position a
OnlySpaceFrom(s, a) == \A k \in a..Len(s) : IsSpace(s[k])

\* the first position from a that holds no white space (Len(s)+1 if none)
RECURSIVE SkipSpace(_, _)
SkipSpace(s, a) ==
  IF a <= Len(s) /\ IsSpace(s[a]) THEN SkipSpace(s, a + 1) ELSE a

NoMatch == [found |-> FALSE, text |-> <<>>, state |-> <<>>, zip |-> <<>>]

\* line 21: /\b([A-Z]{2})\s+(\d{5}(?:-\d{4})?)\b\s*$/ tried at position p
StateZipAt(s, p) ==
  LET q == SkipSpace(s, p + 2) IN
  IF /\ WordBoundary(s, p)
     /\ p + 1 <= Len(s) /\ IsUpper(s[p]) /\ IsUpper(s[p + 1])
     /\ q > p + 2
     /\ DigitsAt(s, q, 5)
  THEN IF /\ q + 5 <= Len(s) /\ s[q + 5] = "-"
          /\ DigitsAt(s, q + 6, 4)
          /\ WordBoundary(s, q + 10)
          /\ OnlySpaceFrom(s, q + 10)
       THEN [found |-> TRUE, text |-> SubSeq(s, p, Len(s)),
             state |-> SubSeq(s, p, p + 1), zip |-> SubSeq(s, q, q + 9)]
       ELSE IF WordBoundary(s, q + 5) /\ OnlySpaceFrom(s, q + 5)
            THEN [found |-> TRUE, text |-> SubSeq(s, p, Len(s)),
                  state |-> SubSeq(s, p, p + 1), zip |-> SubSeq(s, q, q + 4)]
            ELSE NoMatch
  ELSE NoMatch

\* String.prototype.match: the leftmost position where the expression matches
RECURSIVE StateZipFrom(_, _)
StateZipFrom(s, p) ==
  IF p > Len(s) THEN NoMatch
  ELSE IF StateZipAt(s, p).found THEN StateZipAt(s, p)
       ELSE StateZipFrom(s, p + 1)

StateZipMatch(s) == StateZipFrom(s, 1)

\* String.prototype.indexOf, positions from 1, 0 when absent
RECURSIVE IndexFrom(_, _, _)
IndexFrom(s, sub, k) ==
  IF k + Len(sub) - 1 > Len(s) THEN 0
  ELSE IF SubSeq(s, k, k + Len(sub) - 1) = sub THEN k
       ELSE IndexFrom(s, sub, k + 1)

\* line 35: address.replace(text, ''): a string pattern, so the first
\* occurrence of the text goes
RemoveFirst(s, sub) ==
  LET k == IndexFrom(s, sub, 1) IN
  IF k = 0 THEN s
  ELSE SubSeq(s, 1, k - 1) \o SubSeq(s, k + Len(sub), Len(s))

\* String.prototype.split(',')
RECURSIVE SplitComma(_)
SplitComma(s) ==
  LET k == IndexFrom(s, <<",">>, 1) IN
  IF k = 0 THEN <<s>>
  ELSE <<SubSeq(s, 1, k - 1)>> \o SplitComma(SubSeq(s, k + 1, Len(s)))

\* .map(part => part.trim())
TrimEach(parts) == [k \in 1..Len(parts) |-> Trim(parts[k])]

\* line 49: the street suffixes, in lower case
StreetSuffixes ==
  { <<"s", "t">>,
    <<"s", "t", "r", "e", "e", "t">>,
    <<"a", "v", "e">>,
    <<"a", "v", "e", "n", "u", "e">>,
    <<"r", "d">>,
    <<"r", "o", "a", "d">>,
    <<"d", "r">>,
    <<"d", "r", "i", "v", "e">>,
    <<"l", "n">>,
    <<"l", "a", "n", "e">>,
    <<"b", "l", "v", "d">>,
    <<"b", "o", "u", "l", "e", "v", "a", "r", "d">>,
    <<"c", "t">>,
    <<"c", "o", "u", "r", "t">>,
    <<"p", "l">>,
    <<"p", "l", "a", "c", "e">>,
    <<"w", "a", "y">>,
    <<"c", "i", "r", "c", "l", "e">>,
    <<"c", "i", "r">>,
    <<"p", "k", "w", "y">>,
    <<"p", "a", "r", "k", "w", "a", "y">> }

\* a suffix word starts at position a of part, with white space on both sides
SuffixAt(part, a) ==
  /\ a >= 3
  /\ IsSpace(part[a - 1])
  /\ \E w \in StreetSuffixes :
        /\ a + Len(w) + 1 <= Len(part)
        /\ LowerCase(SubSeq(part, a, a + Len(w) - 1)) = w
        /\ IsSpace(part[a + Len(w)])

SuffixEnd(part, a) ==
  LET w == CHOOSE w \in StreetSuffixes :
             /\ a + Len(w) + 1 <= Len(part)
             /\ LowerCase(SubSeq(part, a, a + Len(w) - 1)) = w
             /\ IsSpace(part[a + Len(w)])
  IN a + Len(w) - 1

\* line 50: ^(.+?\s+SUFFIX)\s+(.+)$ : the lazy .+? stops at the first suffix word
RECURSIVE SuffixFrom(_, _)
SuffixFrom(part, a) ==
  IF a > Len(part) THEN [found |-> FALSE, street |-> <<>>, city |-> <<>>]
  ELSE IF SuffixAt(part, a)
       THEN [found |-> TRUE,
             street |-> Trim(SubSeq(part, 1, SuffixEnd(part, a))),
             city |-> Trim(SubSeq(part, SuffixEnd(part, a) + 1, Len(part)))]
       ELSE SuffixFrom(part, a + 1)

\* lines 40-59
StreetAndCity(parts) ==
  IF Len(parts) >= 2
  THEN [street |-> JoinComma(SubSeq(parts, 1, Len(parts) - 1)), city |-> parts[Len(parts)]]
  ELSE IF Len(parts) = 1
       THEN IF SuffixFrom(parts[1], 1).found
            THEN [street |-> SuffixFrom(parts[1], 1).street,
                  city |-> SuffixFrom(parts[1], 1).city]
            ELSE [street |-> parts[1], city |-> <<>>]
       ELSE [street |-> <<>>, city |-> <<>>]

\* lines 62-70
Confidence(street, city) ==
  LET first == IF city = <<>> THEN "medium" ELSE "high" IN
  IF street = <<>> \/ city = <<>> THEN "low" ELSE first

\* value || undefined
OrUndefined(s) == IF s = <<>> THEN NoStr ELSE SomeStr(s)

AddressParts(street, city, state, zip, confidence) ==
  [street |-> street, city |-> city, state |-> state, zip |-> zip,
   confidence |-> confidence]

parseFullAddressToParts(input) ==
  IF input = <<>> THEN AddressParts(NoStr, NoStr, NoStr, NoStr, "low")
  ELSE
    LET address == Trim(input)
        stateZipMatch == StateZipMatch(address)
    IN
    IF ~stateZipMatch.found
    THEN AddressParts(SomeStr(address), NoStr, NoStr, NoStr, "low")
    ELSE
      LET remaining == Trim(RemoveFirst(address, stateZipMatch.text))
          parts == FilterBoolean(TrimEach(SplitComma(remaining)))
          sc == StreetAndCity(parts)
      IN AddressParts(OrUndefined(sc.street), OrUndefined(sc.city),
                      SomeStr(stateZipMatch.state), SomeStr(stateZipMatch.zip),
                      Confidence(sc.street, sc.city))

\* The pieces the inputs are made of.
Tokens ==
  { <<"M", "a", "i", "n">>,
    <<" ", "S", "t">>,
    <<" ", "T", "r", "o", "y">>,
    <<",">>,
    <<" ">>,
    <<"I", "L">>,
    <<" ", "6", "2", "7", "0", "4">>,
    <<" ", "I", "L", " ", "6", "2", "7", "0", "4">>,
    <<"-", "1", "2", "3", "4">> }

RECURSIVE TokenStrings(_)
TokenStrings(n) ==
  IF n = 0 THEN { <<>> }
  ELSE TokenStrings(n - 1) \cup { s \o t : s \in TokenStrings(n - 1), t \in Tokens }

ParseInputs == TokenStrings(MaxTokens)

NoParts == AddressParts(NoStr, NoStr, NoStr, NoStr, "none")

\* A caller calls parseFullAddressToParts(input).
CallParse ==
  /\ parse.pc = "called"
  /\ parse' = [parse EXCEPT !.pc = "returned",
                            !.result = parseFullAddressToParts(parse.input)]
  /\ UNCHANGED <<geoVars, onceVars, runVars, addVars, normVars, importVars, reportVars, editVars>>

-----------------------------------------------------------------------------
(* addFiles and geocodeRows (useUploadManager.ts 235-285, 368-505) *)

\* The uploads that can be under way together: the file input stays enabled
\* while a file is processed, so a second addFiles call can start before the
\* first has returned.
Uploads == {"first", "second"}

\* The rows a parsed file holds.  The file has a full_address header, which
\* comes before its other address headers (line 396).
FileRowKinds(n) ==
  { Row(n, <<"M", "a", "i", "n", ",", " ", "T", "r", "o", "y", " ", "I", "L", " ", "6", "2", "7", "0", "4">>, <<>>, <<>>, "", "", ""),
    Row(n, <<>>, <<"S">>, <<"2">>, "35", "-80", ""),
    Row(n, <<" ">>, <<>>, <<>>, "", "", "") }

RECURSIVE FileTables(_)
FileTables(n) ==
  IF n = 0 THEN { <<>> }
  ELSE { Append(t, r) : t \in FileTables(n - 1), r \in FileRowKinds(n - 1) }

ParsedFiles == UNION { FileTables(n) : n \in 0..MaxRows }

\* lines 377-386
Extensions == {"csv", "xlsx", "xls", "pdf"}
Supported(ext) == ext \in {"csv", "xlsx", "xls"}

\* a || b || ''
OrElse(a, b) == IF a # <<>> THEN a ELSE IF b.def THEN b.val ELSE <<>>

\* lines 398-415: the parts of the full address fill the empty columns
PreProcess(row) ==
  IF row.full_address # <<>>
  THEN LET parsed == parseFullAddressToParts(row.full_address) IN
       [row EXCEPT !.street = OrElse(row.street, parsed.street),
                   !.city = OrElse(row.city, parsed.city),
                   !.state = OrElse(row.state, parsed.state),
                   !.zip = OrElse(row.zip, parsed.zip)]
  ELSE row

ProcessedData(data) == [k \in 1..Len(data) |-> PreProcess(data[k])]

\* lines 433-442
addressFromRow(r) ==
  IF Trim(r.full_address) # <<>> THEN r.full_address
  ELSE JoinComma(FilterBoolean(<<r.street, r.city, r.state, r.zip>>))

\* What res.json() of /api/geocode-address yields for an OK response: it
\* throws, or a body arrives, with both coordinates or with a latitude of 0.
RowBodies ==
  { [thrown |-> TRUE, lat |-> NoNum, lng |-> NoNum, zip |-> NoStr],
    [thrown |-> FALSE, lat |-> SomeNum(35), lng |-> SomeNum(-80), zip |-> SomeStr(<<"9">>)],
    [thrown |-> FALSE, lat |-> SomeNum(0), lng |-> SomeNum(-80), zip |-> NoStr] }

\* lines 254-269: the row built from an OK answer
RowFromBody(row, g) ==
  [row EXCEPT !.lat = IF TruthyNum(g.lat) THEN NumToString(g.lat.val) ELSE row.lat,
              !.lng = IF TruthyNum(g.lng) THEN NumToString(g.lng.val) ELSE row.lng,
              !.zip = IF g.zip.def /\ g.zip.val # <<>> THEN g.zip.val ELSE row.zip]

\* lines 247, 271, 274: { ...row, lat: row.lat ?? '', lng: row.lng ?? '' }
RowAsItWas(row) == [row EXCEPT !.lat = row.lat, !.lng = row.lng]

Stage(outv, k, pc) == [out |-> outv, k |-> k, pc |-> pc]

\* A loop that returns after the row it has just pushed.
AfterRowReturn(rowsv, outv, k) == Stage(outv, k + 1, "geocoded")

\* lines 278-282: the pacing delay between rows, or the end of the loop
AfterRow(rowsv, outv, k) ==
  IF k < Len(rowsv) - 1 THEN Stage(outv, k, "pace") ELSE Stage(outv, k + 1, "geocoded")

\* lines 241-249: the loop body at i = k, up to its first await
RowsStep(rowsv, outv, k) ==
  IF k >= Len(rowsv) THEN Stage(outv, k, "geocoded")
  ELSE LET row == rowsv[k + 1]
           address == Trim(addressFromRow(row))
       IN IF row.lat # "" /\ row.lng # "" THEN AfterRow(rowsv, Append(outv, row), k)
          ELSE IF address = <<>> THEN AfterRow(rowsv, Append(outv, RowAsItWas(row)), k)
          ELSE Stage(outv, k, "fetch")

IdleFile ==
  [pc |-> "idle", rows |-> <<>>, out |-> <<>>, k |-> 0, sent |-> 0, upserts |-> 0,
   sentAtUpsert |-> 0, doneAtUpsert |-> 0]

\* The file's geocodeRows moves to stage st; a stage that awaits fetch has
\* sent a request.
Move(f, st) ==
  [files EXCEPT ![f].out = st.out, ![f].k = st.k, ![f].pc = st.pc,
                ![f].sent = files[f].sent + (IF st.pc = "fetch" THEN 1 ELSE 0)]

\* addFiles(file), to its first await (lines 368-384)
AddFiles(f, ext, data) ==
  /\ files[f].pc = "idle"
  /\ files' = [files EXCEPT ![f] =
                 IF userId.def /\ userId.val # <<>> /\ Supported(ext)
                 THEN [IdleFile EXCEPT !.pc = "parsing", !.rows = data]
                 ELSE [IdleFile EXCEPT !.pc = "done"]]
  /\ UNCHANGED <<userId, geoVars, onceVars, runVars, parseVars, normVars, importVars, reportVars, editVars>>

\* The file parser settles: a rejection goes to the catch (line 501); a
\* result is pre-processed, shown, and geocodeRows starts (lines 388-448).
ParseSettled(f, parsed) ==
  /\ files[f].pc = "parsing"
  /\ IF parsed
     THEN LET processedData == ProcessedData(files[f].rows) IN
          /\ csvData' = processedData
          /\ isGeocoding' = TRUE
          /\ geocodingProgress' = [current |-> 0, total |-> Len(processedData)]
          /\ files' = [Move(f, RowsStep(processedData, <<>>, 0)) EXCEPT ![f].rows = processedData]
     ELSE /\ files' = [files EXCEPT ![f].pc = "done"]
          /\ UNCHANGED <<csvData, isGeocoding, geocodingProgress>>
  /\ UNCHANGED <<upPc, concurrency, rows, rowsNeeding, i, out, workers, raised, passNo,
                 started, claimCount, reqCount, failedReq, progressLog, missedPrev>>
  /\ UNCHANGED <<userId, onceVars, runVars, parseVars, normVars, importVars, reportVars, editVars>>

\* geocodeRows: the fetch of row k settles (lines 251-275)
RowFetchSettled(f, outcome) ==
  /\ files[f].pc = "fetch"
  /\ LET fl == files[f] IN
     files' = IF outcome = "ok"
              THEN [files EXCEPT ![f].pc = "json"]
              ELSE Move(f, AfterRow(fl.rows, Append(fl.out, RowAsItWas(fl.rows[fl.k + 1])), fl.k))
  /\ UNCHANGED <<userId, geoVars, onceVars, runVars, parseVars, normVars, importVars, reportVars, editVars>>

\* geocodeRows: res.json() settles (lines 258-270, 273-275)
RowJsonSettled(f, g) ==
  /\ files[f].pc = "json"
  /\ LET fl == files[f]
         row == fl.rows[fl.k + 1]
     IN files' = Move(f, AfterRow(fl.rows,
                                  Append(fl.out, IF g.thrown THEN RowAsItWas(row)
                                                 ELSE RowFromBody(row, g)),
                                  fl.k))
  /\ UNCHANGED <<userId, geoVars, onceVars, runVars, parseVars, normVars, importVars, reportVars, editVars>>

\* geocodeRows: the 150 ms timer fires, i++ and the next row (lines 240, 279-281)
RowPaceFired(f) ==
  /\ files[f].pc = "pace"
  /\ files' = Move(f, RowsStep(files[f].rows, files[f].out, files[f].k + 1))
  /\ UNCHANGED <<userId, geoVars, onceVars, runVars, parseVars, normVars, importVars, reportVars, editVars>>

\* addFiles continues after await geocodeRows: lines 450-481, the upsert is sent
UpsertSent(f) ==
  /\ files[f].pc = "geocoded"
  /\ isGeocoding' = FALSE
  /\ geocodingProgress' = NoProgress
  /\ files' = [files EXCEPT ![f].pc = "upsert",
                            ![f].upserts = files[f].upserts + 1,
                            ![f].sentAtUpsert = files[f].sent,
                            ![f].doneAtUpsert = Len(files[f].out)]
  /\ UNCHANGED <<csvData, upPc, concurrency, rows, rowsNeeding, i, out, workers, raised,
                 passNo, started, claimCount, reqCount, failedReq, progressLog, missedPrev>>
  /\ UNCHANGED <<userId, onceVars, runVars, parseVars, normVars, importVars, reportVars, editVars>>

\* The upsert settles, with an error or without (lines 483-503)
UpsertSettled(f) ==
  /\ files[f].pc = "upsert"
  /\ files' = [files EXCEPT ![f].pc = "done"]
  /\ UNCHANGED <<userId, geoVars, onceVars, runVars, parseVars, normVars, importVars, reportVars, editVars>>

-----------------------------------------------------------------------------
(* The geocode-run endpoint (api/zip-metrics/route.ts 120-287) *)

\* A row of the jobs table.  A text column is <<>> when null or empty.
Job(line1, zip, lat, lng, flagged) ==
  [address_line1 |-> line1, address_line2 |-> <<>>, city |-> <<>>, state |-> <<>>,
   zip |-> zip, latitude |-> lat, longitude |-> lng, needs_geocode |-> flagged,
   geocode_status |-> "NONE"]

JobKinds ==
  { Job(<<"M">>, <<"2">>, NoNum, NoNum, FALSE),               \* address, no coordinates
    Job(<<" ">>, <<>>, NoNum, NoNum, FALSE),                  \* no usable address
    Job(<<"M">>, <<>>, SomeNum(35), SomeNum(-80), TRUE),      \* coordinates, flagged
    Job(<<"M">>, <<"2">>, SomeNum(35), SomeNum(-80), FALSE) } \* done

RECURSIVE JobTables(_)
JobTables(n) ==
  IF n = 0 THEN { <<>> }
  ELSE { Append(t, j) : t \in JobTables(n - 1), j \in JobKinds }

StoredJobs == UNION { JobTables(n) : n \in 0..MaxJobs }

\* lines 142-149: hasMapbox, and lines 151-155: hasGoogle
KeyConfigured(env) ==
  /\ env.def
  /\ Trim(env.val) # <<>>
  /\ ~Includes(Trim(env.val), YourMark)
  /\ ~Includes(Trim(env.val), PlaceholderMark)

\* line 168: Math.max(1, Math.min(body.limit ?? 50, 500))
DefaultLimit == 50
LimitCap == 500
ClampLimit(bodyLimit) ==
  Max(1, Min(IF bodyLimit.def THEN bodyLimit.val ELSE DefaultLimit, LimitCap))

\* The limits a request body carries: none, or a number.
BodyLimits == { NoNum, SomeNum(0), SomeNum(1), SomeNum(600) }

\* line 176: latitude.is.null, longitude.is.null, needs_geocode.eq.true
NeedsRun(job) == ~job.latitude.def \/ ~job.longitude.def \/ job.needs_geocode

Matching(table) == {k \in 1..Len(table) : NeedsRun(table[k])}

\* A select without .limit(limit): every matching row comes back.
SelectionsAll(table, atMost) ==
  LET n == Cardinality(Matching(table)) IN
  { q \in [1..n -> Matching(table)] : \A a, b \in 1..n : a # b => q[a] # q[b] }

\* lines 171-177: the select returns at most atMost of the matching rows; the
\* query has no ORDER BY, so which rows and in what order is the store's choice.
Selections(table, atMost) ==
  LET n == Min(atMost, Cardinality(Matching(table))) IN
  { q \in [1..n -> Matching(table)] : \A a, b \in 1..n : a # b => q[a] # q[b] }

\* lines 206-214: addrParts and addressString
AddressString(job) ==
  JoinComma(FilterBoolean(<<Trim(job.address_line1), Trim(job.address_line2),
                            Trim(job.city), Trim(job.state), Trim(job.zip)>>))

Reply(status, attempted, ok, bad, remaining, error) ==
  [status |-> status, attempted |-> attempted, success |-> ok, failed |-> bad,
   remaining |-> remaining, error |-> error]

\* POST, from line 138 to the start of the loop; requests is the value of the
\* request counter after it.
PostRunTo(bodyLimit, fetchError, requests) ==
  /\ runPc = "idle"
  /\ runNo' = requests
  /\ lookups' = 0
  /\ updates' = 0
  /\ success' = 0
  /\ failed' = 0
  /\ pos' = 1
  /\ UNCHANGED <<mapboxToken, googleKey, jobs>>
  /\ IF ~KeyConfigured(mapboxToken) /\ ~KeyConfigured(googleKey)
     THEN /\ response' = Reply(400, 0, 0, 0, 0, TRUE)
          /\ UNCHANGED <<runPc, fetched, limit>>
     ELSE IF fetchError
     THEN /\ response' = Reply(500, 0, 0, 0, 0, TRUE)
          /\ limit' = ClampLimit(bodyLimit)
          /\ UNCHANGED <<runPc, fetched>>
     ELSE \E q \in Selections(jobs, ClampLimit(bodyLimit)) :
            /\ limit' = ClampLimit(bodyLimit)
            /\ IF Len(q) = 0
               THEN /\ response' = Reply(200, 0, 0, 0, 0, FALSE)
                    /\ UNCHANGED <<runPc, fetched>>
               ELSE /\ fetched' = [k \in 1..Len(q) |-> [id |-> q[k], job |-> jobs[q[k]]]]
                    /\ runPc' = "loop"
                    /\ UNCHANGED response
  /\ UNCHANGED <<geoVars, onceVars, parseVars, addVars, normVars, importVars, reportVars, editVars>>

\* One of at most MaxRuns requests.
PostRun(bodyLimit, fetchError) ==
  runNo < MaxRuns /\ PostRunTo(bodyLimit, fetchError, runNo + 1)

\* lines 224-233: the update that stores the coordinates
StoreCoords(job, result) ==
  [job EXCEPT !.latitude = SomeNum(result.lat),
              !.longitude = SomeNum(result.lng),
              !.zip = IF result.zip.def THEN result.zip.val ELSE job.zip,
              !.needs_geocode = FALSE,
              !.geocode_status = "OK"]

\* lines 244 and 249: update({ geocode_status: 'FAILED' })
StoreFailed(job) == [job EXCEPT !.geocode_status = "FAILED"]

\* One round of the for loop (lines 205-255).  updateError: the store refuses
\* the update of this round.
LoopStep(net, updateError) ==
  /\ runPc = "loop"
  /\ LET item == fetched[pos]
         address == AddressString(item.job)
         result == geocodeOnce(mapboxToken, address, net)
     IN
     /\ IF address = <<>>
        THEN /\ failed' = failed + 1
             /\ UNCHANGED <<jobs, success, lookups, updates>>
        ELSE /\ lookups' = lookups + 1
             /\ updates' = updates + 1
             /\ IF result.kind = "coords"
                THEN IF updateError
                     THEN /\ failed' = failed + 1
                          /\ UNCHANGED <<jobs, success>>
                     ELSE /\ success' = success + 1
                          /\ jobs' = [jobs EXCEPT ![item.id] = StoreCoords(jobs[item.id], result)]
                          /\ UNCHANGED failed
                ELSE /\ failed' = failed + 1
                     /\ jobs' = IF updateError THEN jobs
                                ELSE [jobs EXCEPT ![item.id] = StoreFailed(jobs[item.id])]
                     /\ UNCHANGED success
     /\ pos' = pos + 1
     /\ runPc' = IF pos = Len(fetched) THEN "count" ELSE "loop"
  /\ UNCHANGED <<mapboxToken, googleKey, limit, fetched, response, runNo>>
  /\ UNCHANGED <<geoVars, onceVars, parseVars, addVars, normVars, importVars, reportVars, editVars>>

\* lines 257-275: the count of what is left, and the response.
FinishRun(countError) ==
  /\ runPc = "count"
  /\ response' = Reply(200, Len(fetched), success, failed,
                       IF countError THEN 0 ELSE Cardinality(Matching(jobs)), FALSE)
  /\ runPc' = "idle"
  /\ UNCHANGED <<mapboxToken, googleKey, jobs, limit, fetched, pos, success, failed, runNo,
                 lookups, updates>>
  /\ UNCHANGED <<geoVars, onceVars, parseVars, addVars, normVars, importVars, reportVars, editVars>>

-----------------------------------------------------------------------------
(* normalizeUSAddress (api/geocode-address/route.ts 10-45, lib/supabase.ts 37-70) *)

\* STATE_TO_USPS, in the order of the object literal, which is the order
\* Object.entries yields
STATE_TO_USPS ==
  << <<<<"a", "l", "a", "b", "a", "m", "a">>, <<"A", "L">>>>,
     <<<<"a", "l", "a", "s", "k", "a">>, <<"A", "K">>>>,
     <<<<"a", "r", "i", "z", "o", "n", "a">>, <<"A", "Z">>>>,
     <<<<"a", "r", "k", "a", "n", "s", "a", "s">>, <<"A", "R">>>>,
     <<<<"c", "a", "l", "i", "f", "o", "r", "n", "i", "a">>, <<"C", "A">>>>,
     <<<<"c", "o", "l", "o", "r", "a", "d", "o">>, <<"C", "O">>>>,
     <<<<"c", "o", "n", "n", "e", "c", "t", "i", "c", "u", "t">>, <<"C", "T">>>>,
     <<<<"d", "e", "l", "a", "w", "a", "r", "e">>, <<"D", "E">>>>,
     <<<<"f", "l", "o", "r", "i", "d", "a">>, <<"F", "L">>>>,
     <<<<"g", "e", "o", "r", "g", "i", "a">>, <<"G", "A">>>>,
     <<<<"h", "a", "w", "a", "i", "i">>, <<"H", "I">>>>,
     <<<<"i", "d", "a", "h", "o">>, <<"I", "D">>>>,
     <<<<"i", "l", "l", "i", "n", "o", "i", "s">>, <<"I", "L">>>>,
     <<<<"i", "n", "d", "i", "a", "n", "a">>, <<"I", "N">>>>,
     <<<<"i", "o", "w", "a">>, <<"I", "A">>>>,
     <<<<"k", "a", "n", "s", "a", "s">>, <<"K", "S">>>>,
     <<<<"k", "e", "n", "t", "u", "c", "k", "y">>, <<"K", "Y">>>>,
     <<<<"l", "o", "u", "i", "s", "i", "a", "n", "a">>, <<"L", "A">>>>,
     <<<<"m", "a", "i", "n", "e">>, <<"M", "E">>>>,
     <<<<"m", "a", "r", "y", "l", "a", "n", "d">>, <<"M", "D">>>>,
     <<<<"m", "a", "s", "s", "a", "c", "h", "u", "s", "e", "t", "t", "s">>, <<"M", "A">>>>,
     <<<<"m", "i", "c", "h", "i", "g", "a", "n">>, <<"M", "I">>>>,
     <<<<"m", "i", "n", "n", "e", "s", "o", "t", "a">>, <<"M", "N">>>>,
     <<<<"m", "i", "s", "s", "i", "s", "s", "i", "p", "p", "i">>, <<"M", "S">>>>,
     <<<<"m", "i", "s", "s", "o", "u", "r", "i">>, <<"M", "O">>>>,
     <<<<"m", "o", "n", "t", "a", "n", "a">>, <<"M", "T">>>>,
     <<<<"n", "e", "b", "r", "a", "s", "k", "a">>, <<"N", "E">>>>,
     <<<<"n", "e", "v", "a", "d", "a">>, <<"N", "V">>>>,
     <<<<"n", "e", "w", " ", "h", "a", "m", "p", "s", "h", "i", "r", "e">>, <<"N", "H">>>>,
     <<<<"n", "e", "w", " ", "j", "e", "r", "s", "e", "y">>, <<"N", "J">>>>,
     <<<<"n", "e", "w", " ", "m", "e", "x", "i", "c", "o">>, <<"N", "M">>>>,
     <<<<"n", "e", "w", " ", "y", "o", "r", "k">>, <<"N", "Y">>>>,
     <<<<"n", "o", "r", "t", "h", " ", "c", "a", "r", "o", "l", "i", "n", "a">>, <<"N", "C">>>>,
     <<<<"n", "o", "r", "t", "h", " ", "d", "a", "k", "o", "t", "a">>, <<"N", "D">>>>,
     <<<<"o", "h", "i", "o">>, <<"O", "H">>>>,
     <<<<"o", "k", "l", "a", "h", "o", "m", "a">>, <<"O", "K">>>>,
     <<<<"o", "r", "e", "g", "o", "n">>, <<"O", "R">>>>,
     <<<<"p", "e", "n", "n", "s", "y", "l", "v", "a", "n", "i", "a">>, <<"P", "A">>>>,
     <<<<"r", "h", "o", "d", "e", " ", "i", "s", "l", "a", "n", "d">>, <<"R", "I">>>>,
     <<<<"s", "o", "u", "t", "h", " ", "c", "a", "r", "o", "l", "i", "n", "a">>, <<"S", "C">>>>,
     <<<<"s", "o", "u", "t", "h", " ", "d", "a", "k", "o", "t", "a">>, <<"S", "D">>>>,
     <<<<"t", "e", "n", "n", "e", "s", "s", "e", "e">>, <<"T", "N">>>>,
     <<<<"t", "e", "x", "a", "s">>, <<"T", "X">>>>,
     <<<<"u", "t", "a", "h">>, <<"U", "T">>>>,
     <<<<"v", "e", "r", "m", "o", "n", "t">>, <<"V", "T">>>>,
     <<<<"v", "i", "r", "g", "i", "n", "i", "a">>, <<"V", "A">>>>,
     <<<<"w", "a", "s", "h", "i", "n", "g", "t", "o", "n">>, <<"W", "A">>>>,
     <<<<"w", "e", "s", "t", " ", "v", "i", "r", "g", "i", "n", "i", "a">>, <<"W", "V">>>>,
     <<<<"w", "i", "s", "c", "o", "n", "s", "i", "n">>, <<"W", "I">>>>,
     <<<<"w", "y", "o", "m", "i", "n", "g">>, <<"W", "Y">>>>,
     <<<<"d", "i", "s", "t", "r", "i", "c", "t", " ", "o", "f", " ", "c", "o", "l", "u", "m", "b", "i", "a">>, <<"D", "C">>>> >>

\* lines 36-40: the street types, in the order of the replace calls
StreetTypes ==
  << <<<<"s", "t", "r", "e", "e", "t">>, <<"S", "t">>>>,
     <<<<"a", "v", "e", "n", "u", "e">>, <<"A", "v", "e">>>>,
     <<<<"b", "o", "u", "l", "e", "v", "a", "r", "d">>, <<"B", "l", "v", "d">>>>,
     <<<<"r", "o", "a", "d">>, <<"R", "d">>>>,
     <<<<"d", "r", "i", "v", "e">>, <<"D", "r">>>> >>

UpperOf == [c \in LowerSet |-> Uppers[CHOOSE k \in 1..Len(Lowers) : Lowers[k] = c]]
ToUpper(c) == IF IsLower(c) THEN UpperOf[c] ELSE c
UpperCase(s) == [k \in 1..Len(s) |-> ToUpper(s[k])]

\* every word starts with a capital
Capitalized(s) ==
  [k \in 1..Len(s) |-> IF k = 1 \/ IsSpace(s[k - 1]) THEN ToUpper(s[k]) ELSE s[k]]

\* replace(/\s+/g, " ")
RECURSIVE CollapseSpaces(_)
CollapseSpaces(s) ==
  IF s = <<>> THEN <<>>
  ELSE IF IsSpace(Head(s))
       THEN <<" ">> \o CollapseSpaces(SubSeq(s, SkipSpace(s, 1), Len(s)))
       ELSE <<Head(s)>> \o CollapseSpaces(Tail(s))

\* replace(/\s+,/g, ",")
RECURSIVE FixSpaceComma(_)
FixSpaceComma(s) ==
  IF s = <<>> THEN <<>>
  ELSE LET q == SkipSpace(s, 1) IN
       IF IsSpace(Head(s)) /\ q <= Len(s) /\ s[q] = ","
       THEN <<",">> \o FixSpaceComma(SubSeq(s, q + 1, Len(s)))
       ELSE <<Head(s)>> \o FixSpaceComma(Tail(s))

\* the expression \bword\b with the i flag matches at position p of s
WordAt(s, word, p) ==
  /\ p + Len(word) - 1 <= Len(s)
  /\ WordBoundary(s, p)
  /\ WordBoundary(s, p + Len(word))
  /\ \A k \in 1..Len(word) : ToLower(s[p + k - 1]) = word[k]

\* A replace without the g flag: the first match goes, the rest stays.
ReplaceWordFirst(s, word, code, p) ==
  IF \E q \in p..Len(s) : WordAt(s, word, q)
  THEN LET q == CHOOSE q \in p..Len(s) :
                  WordAt(s, word, q) /\ \A r \in p..(q - 1) : ~WordAt(s, word, r)
       IN SubSeq(s, p, q - 1) \o code \o SubSeq(s, q + Len(word), Len(s))
  ELSE SubSeq(s, p, Len(s))

\* s.replace(new RegExp(`\\b${word}\\b`, "gi"), code), from position p on
RECURSIVE ReplaceWordFrom(_, _, _, _)
ReplaceWordFrom(s, word, code, p) ==
  IF p > Len(s) THEN <<>>
  ELSE IF WordAt(s, word, p)
       THEN code \o ReplaceWordFrom(s, word, code, p + Len(word))
       ELSE <<s[p]>> \o ReplaceWordFrom(s, word, code, p + 1)

ReplaceWord(s, word, code) == ReplaceWordFrom(s, word, code, 1)

\* the loop of lines 29-32 (and the chain of lines 35-40), from entry k on
RECURSIVE ReplaceEach(_, _, _)
ReplaceEach(s, table, k) ==
  IF k > Len(table) THEN s
  ELSE LET t == ReplaceWord(s, table[k][1], table[k][2]) IN
       IF t = <<>> THEN t ELSE ReplaceEach(t, table, k + 1)

normalizeUSAddress(raw) ==
  LET s1 == Trim(FixSpaceComma(CollapseSpaces(raw)))
      s2 == ReplaceEach(s1, STATE_TO_USPS, 1)
      s3 == ReplaceEach(s2, StreetTypes, 1)
  IN Trim(CollapseSpaces(s3))

\* The letter cases a state name is written in.
Casings == {"lower", "upper", "capitalized"}
InCase(name, casing) ==
  CASE casing = "lower" -> name
    [] casing = "upper" -> UpperCase(name)
    [] OTHER -> Capitalized(name)

\* An address that holds state name k as a whole word, and one that holds it
\* inside a longer word.
AsWholeWord(name) == <<"1", " ", "M", "a", "i", "n", " ", "S", "t", ",", " ">> \o name \o <<" ", "2", "8", "2", "0", "2">>
InsideWord(name) == <<"x">> \o name \o <<"x">>

\* The pieces the other inputs are made of.
NormTokens ==
  { <<"W", "e", "s", "t">>,
    <<" ">>,
    <<"V", "i", "r", "g", "i", "n", "i", "a">>,
    <<",">>,
    <<"x">>,
    <<"S", "t", "r", "e", "e", "t">>,
    <<"n", "o", "r", "t", "h", " ", "d", "a", "k", "o", "t", "a">>,
    <<"N", "E", "W", " ", " ", "Y", "o", "r", "k">> }

RECURSIVE NormStrings(_)
NormStrings(n) ==
  IF n = 0 THEN { <<>> }
  ELSE NormStrings(n - 1) \cup { s \o t : s \in NormStrings(n - 1), t \in NormTokens }

NormCall(input, k, whole) ==
  [input |-> input, k |-> k, whole |-> whole, pc |-> "called", result |-> <<>>,
   again |-> <<>>]

\* A caller calls normalizeUSAddress(raw).
CallNormalize ==
  /\ norm.pc = "called"
  /\ norm' = [norm EXCEPT !.pc = "returned", !.result = normalizeUSAddress(norm.input)]
  /\ UNCHANGED <<geoVars, onceVars, runVars, parseVars, addVars, importVars, reportVars, editVars>>

\* The result is normalized again.
CallNormalizeAgain ==
  /\ norm.pc = "returned"
  /\ norm' = [norm EXCEPT !.pc = "twice", !.again = normalizeUSAddress(norm.result)]
  /\ UNCHANGED <<geoVars, onceVars, runVars, parseVars, addVars, importVars, reportVars, editVars>>

-----------------------------------------------------------------------------
(* validateAndCoerceRow and the import endpoint (unnamed/part_004) *)

DigitSeq == <<"0", "1", "2", "3", "4", "5", "6", "7", "8", "9">>
DigitChar(n) == DigitSeq[n + 1]
DigitVal(c) == CHOOSE n \in 0..9 : DigitSeq[n + 1] = c

\* the value of a run of digits
RECURSIVE DigitsVal(_)
DigitsVal(ds) ==
  IF ds = <<>> THEN 0 ELSE 10 * DigitsVal(SubSeq(ds, 1, Len(ds) - 1)) + DigitVal(ds[Len(ds)])

\* n written with at least w digits
RECURSIVE Padded(_, _)
Padded(n, w) ==
  IF w <= 1 /\ n < 10 THEN <<DigitChar(n)>>
  ELSE Padded(n \div 10, w - 1) \o <<DigitChar(n % 10)>>

\* the longest run of digits of s that starts at position a
RECURSIVE DigitRun(_, _)
DigitRun(s, a) ==
  IF a <= Len(s) /\ IsDigit(s[a]) THEN <<s[a]>> \o DigitRun(s, a + 1) ELSE <<>>

\* replace(/[$,]/g, '')
RECURSIVE CleanPrice(_)
CleanPrice(s) ==
  IF s = <<>> THEN <<>>
  ELSE IF Head(s) \in {"$", ","} THEN CleanPrice(Tail(s))
       ELSE <<Head(s)>> \o CleanPrice(Tail(s))

NaN == [nan |-> TRUE, val |-> 0]
Num(n) == [nan |-> FALSE, val |-> n]

\* parseFloat on the whole numbers the inputs hold: white space, a sign, digits
ParseFloat(s) ==
  LET t == TrimStart(s)
      signed == t # <<>> /\ Head(t) \in {"-", "+"}
      run == DigitRun(t, IF signed THEN 2 ELSE 1)
  IN IF run = <<>> THEN NaN
     ELSE Num(IF signed /\ Head(t) = "-" THEN 0 - DigitsVal(run) ELSE DigitsVal(run))

\* row.price: absent, a JSON number or a string
PriceNone == [t |-> "undefined", n |-> 0, s |-> <<>>]
PriceNum(n) == [t |-> "number", n |-> n, s |-> <<>>]
PriceStr(s) == [t |-> "string", n |-> 0, s |-> s]

\* line 30: !row.price && row.price !== 0
PriceMissing(price) ==
  \/ price.t = "undefined"
  \/ price.t = "string" /\ price.s = <<>>

\* lines 35-42
CoercePrice(price) ==
  IF price.t = "string" THEN ParseFloat(CleanPrice(price.s)) ELSE Num(price.n)

NoDate == [valid |-> FALSE, y |-> 0, m |-> 0, d |-> 0]

\* new Date(s) for the date strings of the inputs: YYYY-MM-DD, or the
\* expanded form +YYYYYY-MM-DD; any other text is an invalid date
ParseDate(s) ==
  LET expanded == s # <<>> /\ Head(s) = "+"
      body == IF expanded THEN Tail(s) ELSE s
      yw == IF expanded THEN 6 ELSE 4
  IN IF /\ Len(body) = yw + 6
        /\ DigitsAt(body, 1, yw)
        /\ body[yw + 1] = "-" /\ DigitsAt(body, yw + 2, 2)
        /\ body[yw + 4] = "-" /\ DigitsAt(body, yw + 5, 2)
        /\ DigitsVal(SubSeq(body, yw + 2, yw + 3)) \in 1..12
        /\ DigitsVal(SubSeq(body, yw + 5, yw + 6)) \in 1..28
     THEN [valid |-> TRUE, y |-> DigitsVal(SubSeq(body, 1, yw)),
           m |-> DigitsVal(SubSeq(body, yw + 2, yw + 3)),
           d |-> DigitsVal(SubSeq(body, yw + 5, yw + 6))]
     ELSE NoDate

\* the last year toISOString writes with four digits
MaxFourDigitYear == 9999

\* line 83: serviceDate.toISOString().split('T')[0]
ISODate(date) ==
  (IF date.y <= MaxFourDigitYear THEN Padded(date.y, 4) ELSE <<"+">> \o Padded(date.y, 6))
    \o <<"-">> \o Padded(date.m, 2) \o <<"-">> \o Padded(date.d, 2)

\* An ImportJobData row.  A text field is <<>> when absent or empty;
\* needs_geocode is FALSE when absent.  service_type and lead_source are
\* carried over trimmed and play no part in the validation.
ImportRow(name, date, price, street, city, state, zip, full, flagged) ==
  [name |-> name, service_date |-> date, price |-> price, street |-> street,
   city |-> city, state |-> state, zip |-> zip, full_address |-> full,
   needs_geocode |-> flagged]

NoData ==
  [name |-> <<>>, service_date |-> <<>>, price |-> 0, street |-> NoStr, city |-> NoStr,
   state |-> NoStr, zip |-> NoStr, full_address |-> NoStr, needs_geocode |-> FALSE]

Invalid(index, reason) ==
  [valid |-> FALSE, error |-> [row |-> index + 1, reason |-> reason], data |-> NoData]

\* value?.trim() || null
TrimOrNull(v) == OrUndefined(Trim(v))

\* optional || null
OrNull(o) == IF o.def /\ o.val # <<>> THEN o ELSE NoStr

\* line 55: row.street && row.city && row.state && row.zip
hasAddressComponents(row) ==
  row.street # <<>> /\ row.city # <<>> /\ row.state # <<>> /\ row.zip # <<>>

\* line 56
hasFullAddress(row) == row.full_address # <<>> /\ Trim(row.full_address) # <<>>

\* A flag raised for a missing zip alone.
NeedsGeocodeOnMissingZip(confidence, street, city, state, zip) == ~zip.def

\* line 78: parsed.confidence === 'low' || !street || !city || !state || !zip
NeedsGeocodeAfterParse(confidence, street, city, state, zip) ==
  confidence = "low" \/ ~street.def \/ ~city.def \/ ~state.def \/ ~zip.def

validateAndCoerceRow(row, index) ==
  IF row.name = <<>> \/ Trim(row.name) = <<>> THEN Invalid(index, "Name is required")
  ELSE IF row.service_date = <<>> THEN Invalid(index, "Service date is required")
  ELSE IF PriceMissing(row.price) THEN Invalid(index, "Price is required")
  ELSE IF CoercePrice(row.price).nan \/ CoercePrice(row.price).val < 0
       THEN Invalid(index, "Invalid price format")
  ELSE IF ~ParseDate(row.service_date).valid THEN Invalid(index, "Invalid date format")
  ELSE IF ~hasAddressComponents(row) /\ ~hasFullAddress(row)
       THEN Invalid(index, "Must have either address components or full address")
  ELSE
    LET parseIt == hasFullAddress(row) /\ ~hasAddressComponents(row)
        parsed == parseFullAddressToParts(row.full_address)
        street == IF parseIt THEN OrNull(parsed.street) ELSE TrimOrNull(row.street)
        city == IF parseIt THEN OrNull(parsed.city) ELSE TrimOrNull(row.city)
        state == IF parseIt THEN OrNull(parsed.state) ELSE TrimOrNull(row.state)
        zip == IF parseIt THEN OrNull(parsed.zip) ELSE TrimOrNull(row.zip)
        needsGeocode ==
          parseIt /\ NeedsGeocodeAfterParse(parsed.confidence, street, city, state, zip)
    IN [valid |-> TRUE, error |-> [row |-> 0, reason |-> ""],
        data |-> [name |-> Trim(row.name),
                  service_date |-> ISODate(ParseDate(row.service_date)),
                  price |-> CoercePrice(row.price).val,
                  street |-> street, city |-> city, state |-> state, zip |-> zip,
                  full_address |-> TrimOrNull(row.full_address),
                  needs_geocode |-> (row.needs_geocode \/ needsGeocode)]]

\* The rows a request carries.
GoodDate == <<"2", "0", "2", "4", "-", "0", "3", "-", "0", "5">>
GoodParts(full, flagged) ==
  ImportRow(<<"n">>, GoodDate, PriceNum(0), <<"S">>, <<"C">>, <<"N", "C">>, <<"2">>, full, flagged)
FullOnly(full, flagged) ==
  ImportRow(<<"n">>, GoodDate, PriceStr(<<"$", "1", ",", "0", "0", "0">>), <<>>, <<>>, <<>>, <<>>, full, flagged)

ImportRowKinds ==
  { GoodParts(<<>>, FALSE),
    FullOnly(<<"M", "a", "i", "n", ",", " ", "T", "r", "o", "y", " ", "I", "L", " ", "6", "2", "7", "0", "4">>, FALSE),
    FullOnly(<<"M", "a", "i", "n", " ", "S", "t", " ", "T", "r", "o", "y", " ", "I", "L", " ", "6", "2", "7", "0", "4">>, TRUE),
    FullOnly(<<"M", "a", "i", "n", " ", "I", "L", " ", "6", "2", "7", "0", "4">>, FALSE),
    FullOnly(<<"M", "a", "i", "n">>, FALSE),
    [FullOnly(<<"M", "a", "i", "n">>, FALSE) EXCEPT !.city = <<"C">>],
    [GoodParts(<<>>, FALSE) EXCEPT !.name = <<" ">>],
    [GoodParts(<<>>, FALSE) EXCEPT !.service_date = <<>>],
    [GoodParts(<<>>, FALSE) EXCEPT !.service_date = <<"x">>],
    [GoodParts(<<>>, FALSE) EXCEPT !.service_date = <<"+", "0", "1", "0", "0", "0", "0", "-", "0", "1", "-", "0", "1">>],
    [GoodParts(<<>>, FALSE) EXCEPT !.price = PriceNone],
    [GoodParts(<<>>, FALSE) EXCEPT !.price = PriceStr(<<"-", "5">>)],
    [GoodParts(<<>>, FALSE) EXCEPT !.price = PriceStr(<<"a">>)],
    [GoodParts(<<>>, FALSE) EXCEPT !.street = <<>>],
    [GoodParts(<<>>, FALSE) EXCEPT !.street = <<" ">>],
    [GoodParts(<<"M", "a", "i", "n", ",", " ", "T", "r", "o", "y", " ", "I", "L", " ", "6", "2", "7", "0", "4">>, FALSE) EXCEPT !.street = <<" ">>] }

RECURSIVE ImportBatches(_)
ImportBatches(n) ==
  IF n = 0 THEN { <<>> }
  ELSE ImportBatches(n - 1) \cup
         { Append(b, r) : b \in ImportBatches(n - 1), r \in ImportRowKinds }

\* A loop that stops at the first row that fails.
RECURSIVE ValidateUntilFailure(_, _)
ValidateUntilFailure(rowsv, index) ==
  IF index >= Len(rowsv) THEN <<>>
  ELSE IF validateAndCoerceRow(rowsv[index + 1], index).valid
       THEN <<validateAndCoerceRow(rowsv[index + 1], index)>>
              \o ValidateUntilFailure(rowsv, index + 1)
       ELSE <<validateAndCoerceRow(rowsv[index + 1], index)>>

\* lines 118-125: the loop, from i = index on; one validation per row
RECURSIVE ValidateFrom(_, _)
ValidateFrom(rowsv, index) ==
  IF index >= Len(rowsv) THEN <<>>
  ELSE <<validateAndCoerceRow(rowsv[index + 1], index)>> \o ValidateFrom(rowsv, index + 1)

\* line 121: validatedRows
RECURSIVE ValidatedRows(_)
ValidatedRows(validations) ==
  IF validations = <<>> THEN <<>>
  ELSE IF Head(validations).valid
       THEN <<Head(validations).data>> \o ValidatedRows(Tail(validations))
       ELSE ValidatedRows(Tail(validations))

\* line 123: errors
RECURSIVE RowErrors(_)
RowErrors(validations) ==
  IF validations = <<>> THEN <<>>
  ELSE IF ~Head(validations).valid
       THEN <<Head(validations).error>> \o RowErrors(Tail(validations))
       ELSE RowErrors(Tail(validations))

ImportReply(status, total, inserted, skipped, errors) ==
  [status |-> status, total |-> total, inserted |-> inserted, skipped |-> skipped,
   errors |-> errors]

NoReply == ImportReply(0, 0, 0, 0, <<>>)

GeneralError(text) == [row |-> 0, reason |-> text]

ImportRequest(pc, rowsv, validations, batch, errors, inserts, reply) ==
  [pc |-> pc, rows |-> rowsv, validations |-> validations, validatedRows |-> batch,
   errors |-> errors, inserts |-> inserts, response |-> reply]

\* POST, to the insert (lines 102-140).  isArray: body.rows is an array.
PostImport(isArray, rowsv) ==
  /\ imp.pc = "idle"
  /\ \E validations \in {ValidateFrom(rowsv, 0)} :
       \E batch \in {ValidatedRows(validations)}, errors \in {RowErrors(validations)} :
         imp' =
           IF ~isArray
           THEN ImportRequest("done", <<>>, <<>>, <<>>, <<>>, 0,
                  ImportReply(400, 0, 0, 0, <<GeneralError("rows must be an array")>>))
           ELSE IF batch = <<>>
           THEN ImportRequest("done", rowsv, validations, batch, errors, 0,
                  ImportReply(200, Len(rowsv), 0, Len(rowsv),
                              IF errors # <<>> THEN errors
                              ELSE <<GeneralError("No valid rows to insert")>>))
           ELSE ImportRequest("insert", rowsv, validations, batch, errors, 1, NoReply)
  /\ UNCHANGED <<geoVars, onceVars, runVars, parseVars, addVars, normVars, reportVars, editVars>>

\* The insert settles (lines 142-159): the store reports an error, or the
\* rows it inserted.
InsertSettled(error, inserted) ==
  /\ imp.pc = "insert"
  /\ inserted <= Len(imp.validatedRows)
  /\ imp' = [imp EXCEPT
       !.pc = "done",
       !.response =
          IF error
          THEN ImportReply(500, Len(imp.rows), 0, Len(imp.rows),
                           <<GeneralError("Database error")>>)
          ELSE ImportReply(200, Len(imp.rows), inserted,
                           Len(imp.rows) - Len(imp.validatedRows), imp.errors)]
  /\ UNCHANGED <<geoVars, onceVars, runVars, parseVars, addVars, normVars, reportVars, editVars>>

-----------------------------------------------------------------------------
(* Numbers of the report: IEEE 754 binary64, for values >= 0 *)

\* Numbers.  A JS number that is not an int here is an IEEE 754 binary64
\* value >= 0: m * 2^e with the 53-bit significand m held as <<hi, lo>>,
\* m = hi * 2^30 + lo, 2^52 <= m < 2^53; zero is <<0, 0>> with e = 0.
Limb == 2^30

N2(hi, lo) == <<hi, lo>>

N2FromInt(n) == N2(n \div Limb, n % Limb)

N2Add(a, b) == N2(a[1] + b[1] + (a[2] + b[2]) \div Limb, (a[2] + b[2]) % Limb)

\* a - b, for a >= b
N2Sub(a, b) ==
  IF a[2] >= b[2] THEN N2(a[1] - b[1], a[2] - b[2])
  ELSE N2(a[1] - b[1] - 1, a[2] + (Limb - b[2]))

N2Less(a, b) == a[1] < b[1] \/ (a[1] = b[1] /\ a[2] < b[2])

\* a * 2^k, for a result below 2^60
N2Shl(a, k) ==
  IF k = 0 THEN a
  ELSE IF k >= 30 THEN N2(a[2] * 2^(k - 30), 0)
  ELSE N2(a[1] * 2^k + a[2] \div 2^(30 - k), (a[2] % 2^(30 - k)) * 2^k)

\* floor(a / 2^k)
N2Shr(a, k) ==
  IF k = 0 THEN a
  ELSE IF k >= 60 THEN N2(0, 0)
  ELSE IF k >= 30 THEN N2(0, a[1] \div 2^(k - 30))
  ELSE N2(a[1] \div 2^k, (a[1] % 2^k) * 2^(30 - k) + a[2] \div 2^k)

BitLen30(v) == CHOOSE k \in 0..30 : IF k = 0 THEN v = 0 ELSE 2^(k - 1) <= v /\ (k = 30 \/ v < 2^k)

N2BitLen(a) == IF a[1] > 0 THEN 30 + BitLen30(a[1]) ELSE BitLen30(a[2])

\* a * k for k < 2^15, for a result below 2^60
N2MulSmall(a, k) ==
  LET p0 == (a[2] % 2^15) * k
      p1 == (a[2] \div 2^15) * k
      low == (p1 % 2^15) * 2^15 + p0
  IN N2(a[1] * k + p1 \div 2^15 + low \div Limb, low % Limb)

Zero == [m |-> N2(0, 0), e |-> 0]

\* n * 2^e (and a little more, when sticky) rounded to the nearest double,
\* ties to even
RoundToDouble(n, e, sticky) ==
  LET len == N2BitLen(n)
      k == len - 53
      q == N2Shr(n, k)
      rem == N2Sub(n, N2Shl(q, k))
      half == N2Shl(N2(0, 1), k - 1)
      up == N2Less(half, rem) \/ (rem = half /\ (sticky \/ q[2] % 2 = 1))
      r == IF up THEN N2Add(q, N2(0, 1)) ELSE q
  IN IF len = 0 THEN Zero
     ELSE IF len <= 53 THEN [m |-> N2Shl(n, 53 - len), e |-> e - (53 - len)]
     ELSE IF N2BitLen(r) > 53 THEN [m |-> N2Shr(r, 1), e |-> e + k + 1]
     ELSE [m |-> r, e |-> e + k]

FromInt(n) == RoundToDouble(N2FromInt(n), 0, FALSE)

\* x < y
FLess(x, y) ==
  IF y = Zero THEN FALSE
  ELSE IF x = Zero THEN TRUE
  ELSE x.e < y.e \/ (x.e = y.e /\ N2Less(x.m, y.m))

\* x + y: the smaller operand is shifted right under three extra bits, the
\* last of them sticky
FAdd(x, y) ==
  IF x = Zero THEN y
  ELSE IF y = Zero THEN x
  ELSE LET big == IF FLess(x, y) THEN y ELSE x
           small == IF FLess(x, y) THEN x ELSE y
           d == big.e - small.e
           wide == N2Shl(small.m, 3)
           shifted == N2Shr(wide, d)
           lost == N2Shl(shifted, IF d >= 60 THEN 0 ELSE d) # wide
           jam == IF lost /\ shifted[2] % 2 = 0 THEN N2Add(shifted, N2(0, 1)) ELSE shifted
       IN RoundToDouble(N2Add(N2Shl(big.m, 3), jam), big.e - 3, FALSE)

\* x * k for an int 0 < k < 128
FMulSmall(x, k) == IF x = Zero THEN Zero ELSE RoundToDouble(N2MulSmall(x.m, k), x.e, FALSE)

\* long division, bit by bit: n more quotient bits of r / d
RECURSIVE DivBits(_, _, _, _)
DivBits(r, d, q, n) ==
  IF n = 0 THEN <<q, r>>
  ELSE LET r2 == N2Shl(r, 1)
           q2 == N2Shl(q, 1)
           step == IF N2Less(r2, d) THEN <<r2, q2>>
                   ELSE <<N2Sub(r2, d), N2Add(q2, N2(0, 1))>>
       IN CHOOSE done \in { DivBits(s[1], d, s[2], n - 1) : s \in {step} } : TRUE

\* x / y for y > 0
FDiv(x, y) ==
  IF x = Zero THEN Zero
  ELSE LET first == ~N2Less(x.m, y.m)
           qr == DivBits(IF first THEN N2Sub(x.m, y.m) ELSE x.m, y.m,
                         N2(0, IF first THEN 1 ELSE 0), 55)
       IN RoundToDouble(qr[1], x.e - y.e - 55, qr[2] # N2(0, 0))

\* Math.round(x) for x below 2^30: floor(x + 0.5)
MathRound(x) ==
  IF x = Zero THEN 0
  ELSE IF x.e >= 0 THEN N2Shl(x.m, x.e)[2]
  ELSE IF -x.e > 54 THEN 0
  ELSE N2Shr(x.m, -x.e)[2] + (N2Shr(x.m, -x.e - 1)[2] % 2)

\* parseFloat(s) for the unsigned decimal texts of the inputs: digits, then
\* '.' and digits; the nearest double to the decimal
ParseNumber(s) ==
  LET t == TrimStart(s)
      whole == DigitRun(t, 1)
      dot == Len(whole) + 1 <= Len(t) /\ t[Len(whole) + 1] = "."
      frac == IF dot THEN DigitRun(t, Len(whole) + 2) ELSE <<>>
  IN IF whole = <<>> /\ frac = <<>> THEN [nan |-> TRUE, val |-> Zero]
     ELSE [nan |-> FALSE,
           val |-> FDiv(FromInt(DigitsVal(whole \o frac)), FromInt(10^Len(frac)))]

\* parseFloat((price || "").replace(/[$,]/g, "")) || 0
PriceOf(price) ==
  LET p == ParseNumber(CleanPrice(price)) IN IF p.nan THEN Zero ELSE p.val

\* rows.reduce((s, r) => s + r.sales, 0), over the first n rows
RECURSIVE SumSales(_, _)
SumSales(list, n) == IF n = 0 THEN Zero ELSE FAdd(SumSales(list, n - 1), list[n].sales)

RECURSIVE SumJobs(_, _)
SumJobs(list, n) == IF n = 0 THEN 0 ELSE SumJobs(list, n - 1) + list[n].jobs

-----------------------------------------------------------------------------
(* The report page (src/unnamed/part_003) *)

\* lines 103-106
pct(numerator, denominator) ==
  IF denominator = Zero THEN Zero ELSE FMulSmall(FDiv(numerator, denominator), 100)

\* lines 108-110: Math.round(n * 10) / 10
round1(n) == FDiv(FromInt(MathRound(FMulSmall(n, 10))), FromInt(10))

\* lines 111-114: an integer
safeAvg(sales, count) == IF count <= 0 THEN 0 ELSE MathRound(FDiv(sales, FromInt(count)))

\* String.prototype.padStart(n, c)
PadStart(s, n, c) == [k \in 1..(n - Len(s)) |-> c] \o s

\* the first match of /\d{3,5}/ from position a on, "" when there is none
RECURSIVE FirstDigits(_, _)
FirstDigits(s, a) ==
  IF a > Len(s) THEN <<>>
  ELSE IF DigitsAt(s, a, 3) THEN SubSeq(s, a, a + Min(Len(DigitRun(s, a)), 5) - 1)
       ELSE FirstDigits(s, a + 1)

\* lines 115-119, for a string
normalizeZip(z) == PadStart(FirstDigits(z, 1), 5, "0")

\* Instants: the day since 1970-01-01 and the millisecond of the day.
Instant(day, ms) == [day |-> day, ms |-> ms]

NotAfter(a, b) == a.day < b.day \/ (a.day = b.day /\ a.ms <= b.ms)

\* days from 1970-01-01 to the civil date y-m-d
DaysFromCivil(y, m, d) ==
  LET yy == IF m <= 2 THEN y - 1 ELSE y
      era == yy \div 400
      yoe == yy - era * 400
      doy == (153 * (IF m > 2 THEN m - 3 ELSE m + 9) + 2) \div 5 + d - 1
      doe == yoe * 365 + yoe \div 4 - yoe \div 100 + doy
  IN era * 146097 + doe - 719468

\* new Date(text) for a date-only text: midnight UTC of the day
DateOf(text) ==
  LET p == ParseDate(text) IN
  [valid |-> p.valid,
   at |-> IF p.valid THEN Instant(DaysFromCivil(p.y, p.m, p.d), 0) ELSE Instant(0, 0)]

LastSecond == 86399000

\* lines 253-318: the range of a date filter.  Of the filter types, the
\* custom range and the default (everything up to now) are modelled; the
\* page's time zone is UTC.
DateFilter(type, customStartDate, customEndDate, now) ==
  [type |-> type, customStartDate |-> customStartDate,
   customEndDate |-> customEndDate, now |-> now]

getDateRange(filter) ==
  IF filter.type = "custom" /\ filter.customStartDate # <<>> /\ filter.customEndDate # <<>>
  THEN [start |-> DateOf(filter.customStartDate).at,
        end |-> Instant(DateOf(filter.customEndDate).at.day, LastSecond)]
  ELSE [start |-> Instant(0, 0), end |-> filter.now]

\* A CsvRow, by the fields the aggregation reads; "" for an absent field.
CsvRow(zip, price, date) == [zip |-> zip, price |-> price, service_date |-> date]

\* A filter that drops what it cannot read.
DateKeptIfReadable(row, dateRange) ==
  /\ DateOf(row.service_date).valid
  /\ NotAfter(dateRange.start, DateOf(row.service_date).at)
  /\ NotAfter(DateOf(row.service_date).at, dateRange.end)

\* lines 338-347: the filter's test
DateKept(row, dateRange) ==
  IF row.service_date = <<>> THEN TRUE
  ELSE IF ~DateOf(row.service_date).valid THEN TRUE
  ELSE /\ NotAfter(dateRange.start, DateOf(row.service_date).at)
       /\ NotAfter(DateOf(row.service_date).at, dateRange.end)

\* lines 337-348
dateFilteredRows(list, dateRange) == SelectSeq(list, LAMBDA row : DateKept(row, dateRange))

\* The counts of an aggregation: the groups in the order their keys were
\* first seen, and the running totals.
ZipEntry(zip, count, sales) == [zip |-> zip, jobs |-> count, sales |-> sales]

NoCounts == [zipMap |-> <<>>, totalJobsCount |-> 0, totalSalesAmount |-> Zero]

IndexOfZip(zipMap, zip) ==
  IF \E k \in 1..Len(zipMap) : zipMap[k].zip = zip
  THEN CHOOSE k \in 1..Len(zipMap) : zipMap[k].zip = zip
  ELSE 0

\* lines 378-386 (and route.ts lines 79-90): one record counted under key zip
Counted(acc, zip, price) ==
  LET at == IndexOfZip(acc.zipMap, zip)
      seen == IF at = 0 THEN Append(acc.zipMap, ZipEntry(zip, 0, Zero)) ELSE acc.zipMap
      k == IF at = 0 THEN Len(acc.zipMap) + 1 ELSE at
  IN [zipMap |-> [seen EXCEPT ![k] = ZipEntry(zip, @.jobs + 1, FAdd(@.sales, price))],
      totalJobsCount |-> acc.totalJobsCount + 1,
      totalSalesAmount |-> FAdd(acc.totalSalesAmount, price)]

\* lines 370-387: one row of the forEach
CountRow(acc, row) ==
  IF Trim(row.zip) = <<>> THEN acc
  ELSE Counted(acc, Trim(row.zip), PriceOf(row.price))

\* lines 370-387: the forEach, each step on the counts of the one before
RECURSIVE CountRows(_, _)
CountRows(acc, list) ==
  IF list = <<>> THEN acc
  ELSE CHOOSE done \in { CountRows(next, Tail(list)) : next \in {CountRow(acc, Head(list))} } : TRUE

\* lines 389-405: the ZipRows, in the order of the map.  avgDeltaPct, which
\* nothing sorts or groups by, is left out.
ZipRow(zip, count, sales, avg, jobShare, revenueShare) ==
  [zip |-> zip, jobs |-> count, sales |-> sales, avg |-> avg, jobShare |-> jobShare,
   revenueShare |-> revenueShare]

ZipStats(zipMap) ==
  LET totalJobs == SumJobs(zipMap, Len(zipMap))
      totalSales == SumSales(zipMap, Len(zipMap))
  IN [k \in 1..Len(zipMap) |->
       ZipRow(zipMap[k].zip, zipMap[k].jobs, zipMap[k].sales,
              safeAvg(zipMap[k].sales, zipMap[k].jobs),
              round1(pct(FromInt(zipMap[k].jobs), FromInt(totalJobs))),
              round1(pct(zipMap[k].sales, totalSales)))]

\* lines 416-423: keyed by normalizeZip, a later row taking the key of an
\* earlier one
zipMetrics(zipStats) ==
  LET KeyOf(k) == normalizeZip(zipStats[k].zip)
      lastOf(z) == CHOOSE k \in 1..Len(zipStats) :
                     KeyOf(k) = z /\ \A j \in (k + 1)..Len(zipStats) : KeyOf(j) # z
  IN [z \in { KeyOf(k) : k \in 1..Len(zipStats) } |->
       [jobs |-> zipStats[lastOf(z)].jobs, sales |-> zipStats[lastOf(z)].sales,
        avg |-> zipStats[lastOf(z)].avg]]

\* The order of the characters of a zip text: by code unit, which is also
\* their order under localeCompare.
CharOrder == <<" ", "-", "0", "1", "2", "3", "4", "5", "6", "7", "8", "9">>
CharRank(c) == CHOOSE k \in 1..Len(CharOrder) : CharOrder[k] = c

\* a < b on strings
RECURSIVE StringLess(_, _)
StringLess(a, b) ==
  IF b = <<>> THEN FALSE
  ELSE IF a = <<>> THEN TRUE
  ELSE IF Head(a) # Head(b) THEN CharRank(Head(a)) < CharRank(Head(b))
  ELSE StringLess(Tail(a), Tail(b))

\* a.localeCompare(b)
localeCompare(a, b) == IF StringLess(a, b) THEN -1 ELSE IF StringLess(b, a) THEN 1 ELSE 0

SortFields == {"zip", "jobs", "sales", "avg", "jobShare", "revenueShare"}

\* aVal < bVal of lines 435-464
FieldLess(a, b, sortField) ==
  CASE sortField = "zip" -> StringLess(a.zip, b.zip)
    [] sortField = "jobs" -> a.jobs < b.jobs
    [] sortField = "sales" -> FLess(a.sales, b.sales)
    [] sortField = "avg" -> a.avg < b.avg
    [] sortField = "jobShare" -> FLess(a.jobShare, b.jobShare)
    [] sortField = "revenueShare" -> FLess(a.revenueShare, b.revenueShare)

\* lines 434-469: the comparator
compare(a, b, sortField, sortDirection) ==
  LET dir == IF sortDirection = "asc" THEN 1 ELSE -1 IN
  IF FieldLess(a, b, sortField) THEN -1 * dir
  ELSE IF FieldLess(b, a, sortField) THEN 1 * dir
  ELSE IF a.sales # b.sales THEN (IF FLess(a.sales, b.sales) THEN -1 ELSE 1) * dir
  ELSE localeCompare(a.zip, b.zip)

\* Array.prototype.sort with the comparator: a stable sort
RECURSIVE InsertRow(_, _, _, _)
InsertRow(row, sorted, sortField, sortDirection) ==
  IF sorted = <<>> THEN <<row>>
  ELSE IF compare(row, Head(sorted), sortField, sortDirection) < 0 THEN <<row>> \o sorted
  ELSE <<Head(sorted)>> \o InsertRow(row, Tail(sorted), sortField, sortDirection)

RECURSIVE SortRows(_, _, _, _)
SortRows(list, n, sortField, sortDirection) ==
  IF n = 0 THEN <<>>
  ELSE InsertRow(list[n], SortRows(list, n - 1, sortField, sortDirection),
                 sortField, sortDirection)

\* lines 426-470
filteredAndSortedZips(zipStats, zipFilter, sortField, sortDirection) ==
  LET filtered ==
        IF Trim(zipFilter) # <<>>
        THEN SelectSeq(zipStats,
                       LAMBDA row : Includes(LowerCase(row.zip), LowerCase(zipFilter)))
        ELSE zipStats
  IN SortRows(filtered, Len(filtered), sortField, sortDirection)

\* The page: the rows of the session, the date range, the memoized values of
\* lines 322-470 and the sort settings of lines 164-166.
Page(pc, list, dateRange, kept, zipStats, totalJobs, totalSales, metrics, sortField, sortDirection, zipFilter, table) ==
  [pc |-> pc, rows |-> list, dateRange |-> dateRange, dateFilteredRows |-> kept,
   zipStats |-> zipStats, totalJobs |-> totalJobs, totalSales |-> totalSales,
   zipMetrics |-> metrics, sortField |-> sortField, sortDirection |-> sortDirection,
   zipFilter |-> zipFilter, filteredAndSortedZips |-> table]

IdlePage ==
  Page("idle", <<>>, [start |-> Instant(0, 0), end |-> Instant(0, 0)], <<>>, <<>>, 0, Zero,
       <<>>, "jobs", "desc", <<>>, <<>>)

\* lines 426-470 on a render: the table, and zipStats itself when no filter
\* is set, since sort works in place on the array it is given
Sorted(page, sortField, sortDirection, zipFilter, table) ==
  [page EXCEPT !.sortField = sortField, !.sortDirection = sortDirection,
               !.zipFilter = zipFilter, !.filteredAndSortedZips = table,
               !.zipStats = IF Trim(zipFilter) # <<>> THEN @ ELSE table]

\* The rows the page is given.
OnTheDay == <<"2", "0", "2", "4", "-", "0", "3", "-", "0", "5">>
DayBefore == <<"2", "0", "2", "4", "-", "0", "3", "-", "0", "4">>
DayAfter == <<"2", "0", "2", "4", "-", "0", "3", "-", "0", "7">>

ReportRowKinds ==
  { CsvRow(<<"2", "8", "2", "0", "2">>, <<"0", ".", "1">>, OnTheDay),
    CsvRow(<<"2", "1", "3", "4">>, <<"0", ".", "2">>, <<>>),
    CsvRow(<<"2", "1", "3", "4">>, <<"0", ".", "3">>, <<"x">>),
    CsvRow(<<"2", "8", "2", "0", "2", "-", "1", "2", "3", "4">>, <<"$", "1", ",", "0", "0", "0">>, DayBefore),
    CsvRow(<<" ">>, <<"a">>, DayAfter) }

RECURSIVE ReportRows(_)
ReportRows(n) ==
  IF n = 0 THEN { <<>> }
  ELSE ReportRows(n - 1) \cup { Append(list, r) : list \in ReportRows(n - 1), r \in ReportRowKinds }

\* noon of 2024-03-06
Now == Instant(DaysFromCivil(2024, 3, 6), 43200000)

DateFilters ==
  { DateFilter("current", <<>>, <<>>, Now),
    DateFilter("custom", OnTheDay, OnTheDay, Now) }

ZipFilters == { <<>>, <<"2", "8", "2">> }

\* The session's rows arrive (lines 322-423, then 426-470 on the same
\* render), under the date filter chosen.
LoadReport(rowsv, filter) ==
  /\ report.page.pc = "idle"
  /\ report.api.pc = "idle"
  /\ \E dateRange \in {getDateRange(filter)} :
     \E kept \in {dateFilteredRows(rowsv, dateRange)} :
     \E counts \in {CountRows(NoCounts, kept)} :
     \E stats \in {ZipStats(counts.zipMap)} :
     \E table \in {filteredAndSortedZips(stats, report.page.zipFilter, report.page.sortField,
                                         report.page.sortDirection)} :
       report' = [report EXCEPT !.page =
         Sorted(Page("open", rowsv, dateRange, kept, stats, counts.totalJobsCount,
                     counts.totalSalesAmount, zipMetrics(stats), report.page.sortField,
                     report.page.sortDirection, report.page.zipFilter, table),
                report.page.sortField, report.page.sortDirection, report.page.zipFilter,
                table)]
  /\ UNCHANGED <<geoVars, onceVars, runVars, parseVars, addVars, normVars, importVars, editVars>>

\* lines 516-523, and the render that follows
handleSort(field) ==
  /\ report.page.pc = "open"
  /\ \E direction \in {IF report.page.sortField = field
                       THEN (IF report.page.sortDirection = "asc" THEN "desc" ELSE "asc")
                       ELSE (IF field = "zip" THEN "asc" ELSE "desc")} :
     \E table \in {filteredAndSortedZips(report.page.zipStats, report.page.zipFilter,
                                         field, direction)} :
       report' = [report EXCEPT !.page =
                    Sorted(@, field, direction, report.page.zipFilter, table)]
  /\ UNCHANGED <<geoVars, onceVars, runVars, parseVars, addVars, normVars, importVars, editVars>>

\* line 1147: the filter box changes, and the render that follows
setZipFilter(text) ==
  /\ report.page.pc = "open"
  /\ text # report.page.zipFilter
  /\ \E table \in {filteredAndSortedZips(report.page.zipStats, text, report.page.sortField,
                                         report.page.sortDirection)} :
       report' = [report EXCEPT !.page =
                    Sorted(@, report.page.sortField, report.page.sortDirection, text, table)]
  /\ UNCHANGED <<geoVars, onceVars, runVars, parseVars, addVars, normVars, importVars, editVars>>

-----------------------------------------------------------------------------
(* GET /api/zip-metrics (src/app/api/zip-metrics/route.ts lines 21-119) *)

\* A row of the jobs table: zip may be null.
StoredJob(zip, price, date) == [zip |-> zip, price |-> price, service_date |-> date]

\* lines 23-27: the search parameters, null when absent
Query(from, to, minPriceStr) == [from |-> from, to |-> to, minPriceStr |-> minPriceStr]

Truthy(o) == o.def /\ o.val # <<>>

\* lines 30-45: what the store sends back for the query
Selected(count, q) ==
  LET minPrice == ParseNumber(q.minPriceStr.val)
      Day(text) == DateOf(text).at
      Match(job) ==
        /\ job.zip.def /\ job.zip.val # <<>>
        /\ Truthy(q.from) => NotAfter(Day(q.from.val), Day(job.service_date))
        /\ Truthy(q.to) => NotAfter(Day(job.service_date), Day(q.to.val))
        /\ Truthy(q.minPriceStr) /\ ~minPrice.nan
             => ~FLess(ParseNumber(job.price).val, minPrice.val)
  IN SelectSeq(count, Match)

\* line 76: job.zip.toString().padStart(5, '0').substring(0, 5)
ZipKey(zip) == SubSeq(PadStart(zip, 5, "0"), 1, 5)

\* lines 72-91: one job of the forEach
CountJob(acc, job) ==
  IF job.zip.val = <<>> THEN acc
  ELSE Counted(acc, ZipKey(job.zip.val), PriceOf(job.price))

RECURSIVE CountJobs(_, _)
CountJobs(acc, count) ==
  IF count = <<>> THEN acc
  ELSE CHOOSE done \in { CountJobs(next, Tail(count)) : next \in {CountJob(acc, Head(count))} } : TRUE

\* lines 94-97: the metrics by key, with the averages
MetricsOf(zipMap) ==
  [z \in { zipMap[k].zip : k \in 1..Len(zipMap) } |->
     LET g == zipMap[IndexOfZip(zipMap, z)] IN
     [jobs |-> g.jobs, sales |-> g.sales,
      avg |-> IF g.jobs > 0 THEN FDiv(g.sales, FromInt(g.jobs)) ELSE Zero]]

ZipMetricsResponse(status, metrics, totalZips, totalJobs, totalSales) ==
  [status |-> status, metrics |-> metrics,
   totals |-> [totalZips |-> totalZips, totalJobs |-> totalJobs, totalSales |-> totalSales]]

EmptyMetrics(status) == ZipMetricsResponse(status, <<>>, 0, 0, Zero)

IdleApi == [pc |-> "idle", jobs |-> <<>>, response |-> EmptyMetrics(0)]

StoredJobKinds ==
  { StoredJob(SomeStr(<<"2", "8", "2", "0", "2">>), <<"0", ".", "1">>, OnTheDay),
    StoredJob(SomeStr(<<"2", "1", "3", "4">>), <<"0", ".", "2">>, DayBefore),
    StoredJob(SomeStr(<<"2", "1", "3", "4">>), <<"0", ".", "3">>, DayAfter),
    StoredJob(SomeStr(<<"2", "8", "2", "0", "2", "-", "1", "2", "3", "4">>), <<"7">>, OnTheDay),
    StoredJob(SomeStr(<<>>), <<"5">>, OnTheDay),
    StoredJob(NoStr, <<"5">>, OnTheDay) }

RECURSIVE StoredJobLists(_)
StoredJobLists(n) ==
  IF n = 0 THEN { <<>> }
  ELSE StoredJobLists(n - 1) \cup
         { Append(count, j) : count \in StoredJobLists(n - 1), j \in StoredJobKinds }

Queries ==
  { Query(NoStr, NoStr, NoStr),
    Query(SomeStr(OnTheDay), SomeStr(DayAfter), NoStr),
    Query(NoStr, NoStr, SomeStr(<<"0", ".", "2">>)),
    Query(SomeStr(<<>>), NoStr, SomeStr(<<"x">>)) }

\* GET: error is the store's answer to the query (line 47), which comes
\* without jobs
GetZipMetrics(stored, q, error) ==
  /\ report.api.pc = "idle"
  /\ report.page.pc = "idle"
  /\ \E count \in {IF error THEN <<>> ELSE Selected(stored, q)} :
     \E counts \in {CountJobs(NoCounts, count)} :
       report' = [report EXCEPT !.api =
         [pc |-> "done", jobs |-> count,
          response |->
            IF error THEN EmptyMetrics(500)
            ELSE IF count = <<>> THEN EmptyMetrics(200)
            ELSE ZipMetricsResponse(200, MetricsOf(counts.zipMap), Len(counts.zipMap),
                                    counts.totalJobsCount, counts.totalSalesAmount)]]
  /\ UNCHANGED <<geoVars, onceVars, runVars, parseVars, addVars, normVars, importVars, editVars>>

-----------------------------------------------------------------------------
(* The table's row operations (useUploadManager.ts 553-611, 666-672) *)

MaxEdits == 2

NoRetry == [pc |-> "idle", rowIndex |-> 0, name |-> -1, address |-> <<>>]

NoEdit ==
  [count |-> 0, kind |-> "none", during |-> 0, name |-> -1, column |-> "name", value |-> <<>>]

\* { ...undefined, ... }: an object with none of the file's columns
Blank == Row(-1, <<>>, <<>>, <<>>, "", "", "")

\* An index of the array below its length that holds no element.
Hole == Row(-2, <<>>, <<>>, <<>>, "", "", "")

\* The startUpload pass in flight, 0 when there is none.
PassInFlight == IF upPc = "running" THEN passNo ELSE 0

\* The table shows a row at rowIndex.
Shown(rowIndex) == rowIndex < Len(csvData) /\ csvData[rowIndex + 1] # Hole

Edited(kind, name, column, value) ==
  [count |-> lastEdit.count + 1, kind |-> kind, during |-> PassInFlight, name |-> name,
   column |-> column, value |-> value]

\* The columns and the text a cell edit carries.
EditColumns == {"street", "full_address"}
EditValues == { <<"E">> }

\* lines 666-672
handleCellEdit(rowIndex, column, value) ==
  /\ lastEdit.count < MaxEdits
  /\ Shown(rowIndex)
  /\ csvData' = [csvData EXCEPT ![rowIndex + 1][column] = value]
  /\ lastEdit' = Edited("cell", csvData[rowIndex + 1].name, column, value)
  /\ UNCHANGED retry
  /\ UNCHANGED <<isGeocoding, geocodingProgress, upPc, concurrency, rows, rowsNeeding, i, out,
                 workers, raised, passNo, started, claimCount, reqCount, failedReq,
                 progressLog, missedPrev>>
  /\ UNCHANGED <<onceVars, runVars, parseVars, addVars, normVars, importVars, reportVars>>

\* lines 570-572: prev.filter((_, index) => index !== rowIndex)
RemoveAt(table, rowIndex) ==
  [k \in 1..(Len(table) - 1) |-> IF k <= rowIndex THEN table[k] ELSE table[k + 1]]

removeRow(rowIndex) ==
  /\ lastEdit.count < MaxEdits
  /\ Shown(rowIndex)
  /\ csvData' = RemoveAt(csvData, rowIndex)
  /\ lastEdit' = Edited("remove", csvData[rowIndex + 1].name, "name", <<>>)
  /\ UNCHANGED retry
  /\ UNCHANGED <<isGeocoding, geocodingProgress, upPc, concurrency, rows, rowsNeeding, i, out,
                 workers, raised, passNo, started, claimCount, reqCount, failedReq,
                 progressLog, missedPrev>>
  /\ UNCHANGED <<onceVars, runVars, parseVars, addVars, normVars, importVars, reportVars>>

\* lines 553-568
clearFiles ==
  /\ lastEdit.count < MaxEdits
  /\ csvData' = <<>>
  /\ isGeocoding' = FALSE
  /\ geocodingProgress' = NoProgress
  /\ lastEdit' = Edited("clear", -1, "name", <<>>)
  /\ UNCHANGED retry
  /\ UNCHANGED <<upPc, concurrency, rows, rowsNeeding, i, out, workers, raised, passNo,
                 started, claimCount, reqCount, failedReq, progressLog, missedPrev>>
  /\ UNCHANGED <<onceVars, runVars, parseVars, addVars, normVars, importVars, reportVars>>

\* retryRow, from line 575 to the fetch of line 582.  The calls that return
\* at line 576 or 579 change nothing.
retryRow(rowIndex) ==
  /\ lastEdit.count < MaxEdits
  /\ retry.pc = "idle"
  /\ Shown(rowIndex)
  /\ makeAddress(csvData[rowIndex + 1]) # <<>>
  /\ retry' = [pc |-> "fetch", rowIndex |-> rowIndex, name |-> csvData[rowIndex + 1].name,
               address |-> makeAddress(csvData[rowIndex + 1])]
  /\ lastEdit' = [lastEdit EXCEPT !.count = @ + 1]
  /\ UNCHANGED <<geoVars, onceVars, runVars, parseVars, addVars, normVars, importVars, reportVars>>

\* The fetch of line 582 settles: it throws (line 607), or answers not OK
\* (line 605), or answers OK and res.json() is awaited (line 589).
RetryFetchSettled(outcome) ==
  /\ retry.pc = "fetch"
  /\ retry' = IF outcome = "ok" THEN [retry EXCEPT !.pc = "json"] ELSE NoRetry
  /\ UNCHANGED lastEdit
  /\ UNCHANGED <<geoVars, onceVars, runVars, parseVars, addVars, normVars, importVars, reportVars>>

\* lines 591-599: the functional update, on the table as it is when the
\* update runs
ApplyRetry(table, rowIndex, g) ==
  LET base == IF rowIndex < Len(table) /\ table[rowIndex + 1] # Hole
              THEN table[rowIndex + 1] ELSE Blank
      row == [base EXCEPT !.lat = NumToString(g.lat.val),
                          !.lng = NumToString(g.lng.val),
                          !.needs_geocode = "false"]
  IN [k \in 1..Max(Len(table), rowIndex + 1) |->
        IF k = rowIndex + 1 THEN row
        ELSE IF k <= Len(table) THEN table[k] ELSE Hole]

\* res.json() settles (lines 589-604).
RetryJsonSettled(g) ==
  /\ retry.pc = "json"
  /\ retry' = NoRetry
  /\ IF ~g.thrown /\ TruthyNum(g.lat) /\ TruthyNum(g.lng)
     THEN /\ csvData' = ApplyRetry(csvData, retry.rowIndex, g)
          /\ lastEdit' = [lastEdit EXCEPT !.kind = "retry", !.during = PassInFlight,
                                          !.name = ApplyRetry(csvData, retry.rowIndex, g)[retry.rowIndex + 1].name,
                                          !.column = "lat",
                                          !.value = <<>>]
     ELSE UNCHANGED <<csvData, lastEdit>>
  /\ UNCHANGED <<isGeocoding, geocodingProgress, upPc, concurrency, rows, rowsNeeding, i, out,
                 workers, raised, passNo, started, claimCount, reqCount, failedReq,
                 progressLog, missedPrev>>
  /\ UNCHANGED <<onceVars, runVars, parseVars, addVars, normVars, importVars, reportVars>>

-----------------------------------------------------------------------------
(* Specifications: each starts one component and leaves the others idle *)

OnceIdle ==
  once = [token |-> NoStr, address |-> <<>>, net |-> Net("ok", <<>>, NoStr, NoStr),
          pc |-> "idle", result |-> NullResult]

NormIdle == norm = [NormCall(<<>>, 0, FALSE) EXCEPT !.pc = "idle"]

ImportIdle == imp = ImportRequest("idle", <<>>, <<>>, <<>>, <<>>, 0, NoReply)

ReportIdle == report = [page |-> IdlePage, api |-> IdleApi]

EditIdle == retry = NoRetry /\ lastEdit = NoEdit

ParseIdle == parse = [input |-> <<>>, pc |-> "idle", result |-> NoParts]

AddIdle == userId = NoStr /\ files = [f \in Uploads |-> IdleFile]

RunIdle ==
  /\ mapboxToken = NoStr
  /\ googleKey = NoStr
  /\ jobs = <<>>
  /\ limit = 0
  /\ runPc = "idle"
  /\ fetched = <<>>
  /\ pos = 0
  /\ success = 0
  /\ failed = 0
  /\ response = Reply(0, 0, 0, 0, 0, FALSE)
  /\ runNo = 0
  /\ lookups = 0
  /\ updates = 0

GeoIdle == LoadedWith(UploadConcurrency) /\ csvData = <<>>

\* One geocodeAll run, for each concurrency: the first press of the button.
InitGeo ==
  (\E c \in Concurrencies : LoadedWith(c)) /\ OnceIdle /\ RunIdle /\ ParseIdle /\ AddIdle /\ NormIdle /\ ImportIdle /\ ReportIdle /\ EditIdle

FirstUpload == passNo = 0 /\ StartUpload

NextGeo == FirstUpload \/ RunStep

SpecGeo == InitGeo /\ [][NextGeo]_vars

\* Every request eventually returns or fails, every timer fires and every
\* settled promise is continued: a step of the run that can be taken is
\* taken.  Nothing makes the user press the button.
SpecGeoFair == InitGeo /\ [][NextGeo]_vars /\ WF_vars(RunStep)

\* The upload page: the button pressed again and again, geocodeAll always
\* called with concurrency 5 (line 530).
InitUpload ==
  LoadedWith(UploadConcurrency) /\ OnceIdle /\ RunIdle /\ ParseIdle /\ AddIdle /\ NormIdle /\ ImportIdle /\ ReportIdle /\ EditIdle

NextUpload == (passNo < MaxPasses /\ StartUpload) \/ RunStep

SpecUpload == InitUpload /\ [][NextUpload]_vars

InitOnce ==
  /\ \E t \in MapboxTokens, a \in OnceAddresses, n \in NetOutcomes :
        once = [token |-> t, address |-> a, net |-> n, pc |-> "called", result |-> NullResult]
  /\ GeoIdle
  /\ RunIdle
  /\ ParseIdle
  /\ AddIdle
  /\ NormIdle
  /\ ImportIdle
  /\ ReportIdle /\ EditIdle

NextOnce == CallGeocodeOnce

SpecOnce == InitOnce /\ [][NextOnce]_vars

\* The geocode-run endpoint over a stored table, with the process's keys.
InitRun ==
  /\ mapboxToken \in MapboxTokens
  /\ googleKey \in GoogleKeys
  /\ jobs \in StoredJobs
  /\ limit = 0
  /\ runPc = "idle"
  /\ fetched = <<>>
  /\ pos = 0
  /\ success = 0
  /\ failed = 0
  /\ response = Reply(0, 0, 0, 0, 0, FALSE)
  /\ runNo = 0
  /\ lookups = 0
  /\ updates = 0
  /\ GeoIdle
  /\ OnceIdle
  /\ ParseIdle
  /\ AddIdle
  /\ NormIdle
  /\ ImportIdle
  /\ ReportIdle /\ EditIdle

NextRun ==
  \/ \E l \in BodyLimits, e \in BOOLEAN : PostRun(l, e)
  \/ \E n \in NetOutcomes, e \in BOOLEAN : LoopStep(n, e)
  \/ \E e \in BOOLEAN : FinishRun(e)

SpecRun == InitRun /\ [][NextRun]_vars

\* Requests without end against one table, by a process with a public Mapbox
\* token: every request carries the limit of the first, and the store answers
\* every query.  runNo stops counting at MaxRuns.
InitRepeat ==
  /\ mapboxToken = SomeStr(PkPrefix \o <<"x">>)
  /\ googleKey = NoStr
  /\ jobs \in StoredJobs
  /\ limit = 0
  /\ runPc = "idle"
  /\ fetched = <<>>
  /\ pos = 0
  /\ success = 0
  /\ failed = 0
  /\ response = Reply(0, 0, 0, 0, 0, FALSE)
  /\ runNo = 0
  /\ lookups = 0
  /\ updates = 0
  /\ GeoIdle
  /\ OnceIdle
  /\ ParseIdle
  /\ AddIdle
  /\ NormIdle
  /\ ImportIdle
  /\ ReportIdle /\ EditIdle

SameLimit(bodyLimit) == runNo = 0 \/ ClampLimit(bodyLimit) = limit

NextRepeat ==
  \/ \E l \in BodyLimits :
       SameLimit(l) /\ PostRunTo(l, FALSE, Min(runNo + 1, MaxRuns))
  \/ \E n \in NetOutcomes, e \in BOOLEAN : LoopStep(n, e)
  \/ \E e \in BOOLEAN : FinishRun(e)

SpecRepeat == InitRepeat /\ [][NextRepeat]_vars

SpecRepeatFair == InitRepeat /\ [][NextRepeat]_vars /\ WF_vars(NextRepeat)

\* Calls of parseFullAddressToParts on the strings built from the tokens.
InitParse ==
  /\ \E s \in ParseInputs : parse = [input |-> s, pc |-> "called", result |-> NoParts]
  /\ GeoIdle
  /\ OnceIdle
  /\ RunIdle
  /\ AddIdle
  /\ NormIdle
  /\ ImportIdle
  /\ ReportIdle /\ EditIdle

NextParse == CallParse

SpecParse == InitParse /\ [][NextParse]_vars

\* Files handed to addFiles, by a user who is logged in or not.
InitAdd ==
  /\ userId \in {NoStr, SomeStr(<<"u">>)}
  /\ files = [f \in Uploads |-> IdleFile]
  /\ GeoIdle
  /\ OnceIdle
  /\ RunIdle
  /\ ParseIdle
  /\ NormIdle
  /\ ImportIdle
  /\ ReportIdle /\ EditIdle

NextAdd ==
  \E f \in Uploads :
    \/ \E ext \in Extensions, data \in ParsedFiles : AddFiles(f, ext, data)
    \/ \E parsed \in BOOLEAN : ParseSettled(f, parsed)
    \/ \E outcome \in FetchOutcomes : RowFetchSettled(f, outcome)
    \/ \E g \in RowBodies : RowJsonSettled(f, g)
    \/ RowPaceFired(f)
    \/ UpsertSent(f)
    \/ UpsertSettled(f)

SpecAdd == InitAdd /\ [][NextAdd]_vars

\* Calls of normalizeUSAddress: on every state name of the table in every
\* letter case, as a whole word and inside a longer word, and on the strings
\* built from the tokens.
InitNorm ==
  /\ \/ \E k \in 1..Len(STATE_TO_USPS), c \in Casings, whole \in BOOLEAN :
          LET name == InCase(STATE_TO_USPS[k][1], c) IN
          norm = NormCall(IF whole THEN AsWholeWord(name) ELSE InsideWord(name), k, whole)
     \/ \E s \in NormStrings(MaxWords) : norm = NormCall(s, 0, FALSE)
  /\ GeoIdle
  /\ OnceIdle
  /\ RunIdle
  /\ ParseIdle
  /\ AddIdle
  /\ ImportIdle
  /\ ReportIdle /\ EditIdle

NextNorm == CallNormalize \/ CallNormalizeAgain

SpecNorm == InitNorm /\ [][NextNorm]_vars

\* One request to the import endpoint.
InitImport ==
  /\ imp = ImportRequest("idle", <<>>, <<>>, <<>>, <<>>, 0, NoReply)
  /\ GeoIdle
  /\ OnceIdle
  /\ RunIdle
  /\ ParseIdle
  /\ AddIdle
  /\ NormIdle
  /\ ReportIdle /\ EditIdle

NextImport ==
  \/ \E isArray \in BOOLEAN, b \in ImportBatches(MaxImportRows) : PostImport(isArray, b)
  \/ \E error \in BOOLEAN, n \in 0..MaxImportRows : InsertSettled(error, n)

SpecImport == InitImport /\ [][NextImport]_vars

\* The report page and the zip-metrics endpoint.  They share no state: a
\* behaviour follows the page or one request.
InitReport ==
  /\ ReportIdle /\ EditIdle
  /\ GeoIdle
  /\ OnceIdle
  /\ RunIdle
  /\ ParseIdle
  /\ AddIdle
  /\ NormIdle
  /\ ImportIdle

NextReport ==
  \/ \E list \in ReportRows(MaxReportRows), filter \in DateFilters : LoadReport(list, filter)
  \/ \E field \in SortFields : handleSort(field)
  \/ \E text \in ZipFilters : setZipFilter(text)
  \/ \E stored \in StoredJobLists(MaxReportRows), q \in Queries, error \in BOOLEAN :
       GetZipMetrics(stored, q, error)

SpecReport == InitReport /\ [][NextReport]_vars

\* The row operations, alone and while the pass of the first press of the
\* Geocode button is in flight.  The button is pressed on a table of rows of
\* the file.
FileRows == \A k \in 1..Len(csvData) : csvData[k].name >= 0

InitEdit ==
  /\ LoadedWith(UploadConcurrency)
  /\ retry = NoRetry
  /\ lastEdit = NoEdit
  /\ OnceIdle
  /\ RunIdle
  /\ ParseIdle
  /\ AddIdle
  /\ NormIdle
  /\ ImportIdle
  /\ ReportIdle

NextEdit ==
  \/ (FileRows /\ FirstUpload)
  \/ RunStep
  \/ \E rowIndex \in 0..(MaxRows - 1), column \in EditColumns, value \in EditValues :
       handleCellEdit(rowIndex, column, value)
  \/ \E rowIndex \in 0..(MaxRows - 1) : removeRow(rowIndex)
  \/ \E rowIndex \in 0..(MaxRows - 1) : retryRow(rowIndex)
  \/ \E outcome \in FetchOutcomes : RetryFetchSettled(outcome)
  \/ \E g \in BodyOutcomes : RetryJsonSettled(g)
  \/ clearFiles

SpecEdit == InitEdit /\ [][NextEdit]_vars

-----------------------------------------------------------------------------
(* Observations on a geocodeAll run *)

Indices == 0..(Len(rows) - 1)

\* startUpload has called geocodeAll and geocodeAll has returned.
PassReturned == upPc = "idle" /\ passNo >= 1 /\ rowsNeeding > 0 /\ ~raised

HasCoords(row) == row.lat # "" /\ row.lng # ""

\* Requests sent and not yet answered.
InFlight == Cardinality({w \in 1..Len(workers) : workers[w].pc = "fetch"})

\* Times done = d was handed to onProgress.
ProgressCalls(d) == Cardinality({k \in 1..Len(progressLog) : progressLog[k] = d})

\* Every field but lat, lng, zip and needs_geocode agrees.
SameButGeocode(a, b) ==
  /\ a.name = b.name
  /\ a.full_address = b.full_address
  /\ a.street = b.street
  /\ a.city = b.city
  /\ a.state = b.state

-----------------------------------------------------------------------------
(* Claims *)

\* C1: at every moment of a run, and so in the array geocodeAll returns, the
\* output has the input's length and slot k holds row k of the input with at
\* most lat, lng, zip and needs_geocode changed, for every concurrency and
\* every order in which the workers' requests complete.
C1_OutputFollowsInput ==
  /\ Len(out) = Len(rows)
  /\ \A k \in 1..Len(rows) : SameButGeocode(out[k], rows[k])
  /\ PassReturned => csvData = out

\* C1 witness: two workers, the second row answered before the first, both
\* rows changed by the run.
C1_Witness ==
  /\ PassReturned
  /\ Len(rows) = 2
  /\ progressLog = <<2, 1>>
  /\ out[1] # rows[1]
  /\ out[2] # rows[2]

\* C2: no provider request is sent for a row that already has lat and lng,
\* and such a row is returned unchanged.
C2_NoRequestForGeocodedRow ==
  \A k \in Indices :
     HasCoords(rows[k + 1]) => reqCount[k] = 0 /\ out[k + 1] = rows[k + 1]

\* C3: a failed request (thrown, non-OK, or without coordinates) raises
\* nothing out of geocodeAll, and when geocodeAll has returned every row was
\* claimed and every row with an address was requested.
C3_FailureStaysInRow ==
  /\ ~raised
  /\ PassReturned =>
       \A k \in Indices :
          /\ claimCount[k] = 1
          /\ Trim(makeAddress(rows[k + 1])) # <<>> => reqCount[k] = 1

\* C3 witness: one worker, the first row's request failed, the second row was
\* requested after it.
C3_Witness ==
  /\ PassReturned
  /\ concurrency = 1
  /\ Len(rows) = 2
  /\ 0 \in failedReq
  /\ reqCount[1] = 1

\* C4: during a run at most min(concurrency, rows) requests are in flight,
\* and exactly that many workers were started.
C4_BoundedPool ==
  upPc = "running" =>
     /\ InFlight <= Min(concurrency, Len(rows))
     /\ started = Min(concurrency, Len(rows))
     /\ Len(workers) = started

\* C4 witness: more rows than workers, the only worker has a request in
\* flight for the second row.
C4_Witness ==
  /\ upPc = "running"
  /\ concurrency = 1
  /\ Len(rows) = 2
  /\ InFlight = 1
  /\ workers[1].idx = 1

\* C5 as claimed: in a later pass a row that got no result in the pass
\* before is not requested unless needs_geocode is "true" again.
C5_NoRetryUnlessReset ==
  \A k \in Indices :
     (rows[k + 1].name \in missedPrev /\ reqCount[k] > 0)
        => rows[k + 1].needs_geocode = "true"

\* C5 amended: a row that got no result in the pass before (coordinates
\* unset, needs_geocode "false") is requested again, once, by the next pass
\* that reaches geocodeAll, with needs_geocode still "false"; and the pass
\* reaches geocodeAll whenever that row has a street, city or full_address.
C5_MissedRowIsRetried ==
  \A k \in Indices :
     rows[k + 1].name \in missedPrev =>
        /\ rows[k + 1].needs_geocode = "false"
        /\ PassReturned => reqCount[k] = 1
        /\ (rows[k + 1].street # <<>> \/ rows[k + 1].city # <<>>
              \/ rows[k + 1].full_address # <<>>) => rowsNeeding > 0

\* C5 witness: the second pass has returned and asked again for a row the
\* first pass got no result for.
C5_Witness ==
  /\ PassReturned
  /\ passNo = 2
  /\ \E k \in Indices : rows[k + 1].name \in missedPrev /\ reqCount[k] = 1

\* Every index was claimed once and reported to onProgress once.
EveryRowOnce ==
  \A k \in Indices : claimCount[k] = 1 /\ ProgressCalls(k + 1) = 1

\* C6: a run whose requests all return or fail ends, and by then every index
\* was processed once and reported to onProgress once.
C6_RunEndsEveryRowOnce ==
  [](upPc = "running" => <>(PassReturned /\ EveryRowOnce))

\* C6 witness: a returned run over two rows, one skipped for its empty
\* address and one whose request failed.
C6_Witness ==
  /\ PassReturned
  /\ Len(rows) = 2
  /\ EveryRowOnce
  /\ reqCount[0] = 0
  /\ 1 \in failedReq


\* C7: geocodeOnce never raises: whatever the token, the address and the
\* provider's answer, the call settles with coordinates or with null.
C7_GeocodeOnceNeverRaises == once.pc = "settled" => once.result.kind # "raise"

\* C8: when the Mapbox token fails the geocoding client's own test (absent,
\* empty, or not starting with "pk."), geocode-run answers with one top-level
\* error, and performs no lookup and no update for any job.
C8_BadTokenOneError ==
  ClientTokenBad(mapboxToken) =>
    /\ lookups = 0
    /\ updates = 0
    /\ (runNo >= 1 /\ runPc = "idle" => response.error)


\* The file's geocodeRows has a provider request under way.
RowRequestInFlight(f) == files[f].pc \in {"fetch", "json"}

\* The rows of the file that geocodeRows has to look up.
RowsToLookUp(f) ==
  Cardinality({k \in 1..Len(files[f].rows) :
                 /\ ~(files[f].rows[k].lat # "" /\ files[f].rows[k].lng # "")
                 /\ Trim(addressFromRow(files[f].rows[k])) # <<>>})

\* C9: addFiles sends the upsert at most once per file, and only after
\* geocodeRows has finished every row of the file: when the upsert is sent
\* every row has its output and every lookup has been sent and answered, and
\* no request of the file is in flight or sent from then on.
C9_UpsertOnceAfterGeocoding ==
  \A f \in Uploads :
    /\ files[f].upserts <= 1
    /\ files[f].upserts = 1 =>
         /\ files[f].doneAtUpsert = Len(files[f].rows)
         /\ files[f].sentAtUpsert = RowsToLookUp(f)
         /\ files[f].sent = files[f].sentAtUpsert
         /\ Len(files[f].out) = Len(files[f].rows)
         /\ ~RowRequestInFlight(f)

C9_Witness ==
  \E f \in Uploads :
    /\ files[f].pc = "done"
    /\ files[f].upserts = 1
    /\ Len(files[f].rows) = MaxRows
    /\ files[f].sent >= 2

\* C10: parseFullAddressToParts returns confidence high when street and city
\* were both extracted, medium when a street was extracted and no city, and
\* low otherwise (no state and zip at the end, empty input, or no street).
C10_ConfidenceLevels ==
  parse.pc = "returned" =>
    LET r == parse.result
        hasStreet == r.street.def /\ r.street.val # <<>>
        hasCity == r.city.def /\ r.city.val # <<>>
    IN r.confidence =
         IF parse.input = <<>> \/ ~StateZipMatch(Trim(parse.input)).found THEN "low"
         ELSE IF hasStreet /\ hasCity THEN "high"
         ELSE IF hasStreet THEN "medium"
         ELSE "low"


\* C11: for each of the 51 state names, in any letter case, normalizeUSAddress
\* turns an address that holds the name as a whole word into the same address
\* with the state's own USPS code in its place, and leaves alone a name that
\* is part of a longer word.
C11_StateNameToOwnCode ==
  norm.pc # "called" /\ norm.k > 0 =>
    IF norm.whole
    THEN norm.result = AsWholeWord(STATE_TO_USPS[norm.k][2])
    ELSE norm.result = norm.input

\* C12: normalizeUSAddress is idempotent: normalizing a result gives the
\* result back.
C12_Idempotent == norm.pc = "twice" => norm.again = norm.result

C12_Witness ==
  /\ norm.pc = "twice"
  /\ norm.result # norm.input
  /\ norm.k = 0
  /\ Len(norm.result) >= 4

\* A date written as YYYY-MM-DD.
IsYMD(s) ==
  /\ Len(s) = 10
  /\ DigitsAt(s, 1, 4) /\ s[5] = "-" /\ DigitsAt(s, 6, 2) /\ s[8] = "-" /\ DigitsAt(s, 9, 2)

\* C13: every record validateAndCoerceRow returns as valid has a non-empty
\* trimmed name, a service_date in YYYY-MM-DD form, a price >= 0, and an
\* address that is four non-empty parts or a non-empty full_address.
C13_ValidRecordComplete ==
  \A k \in 1..Len(imp.validatedRows) :
    LET r == imp.validatedRows[k] IN
    /\ r.name # <<>> /\ Trim(r.name) = r.name
    /\ IsYMD(r.service_date)
    /\ r.price >= 0
    /\ \/ /\ r.street.def /\ r.street.val # <<>>
          /\ r.city.def /\ r.city.val # <<>>
          /\ r.state.def /\ r.state.val # <<>>
          /\ r.zip.def /\ r.zip.val # <<>>
       \/ r.full_address.def /\ r.full_address.val # <<>>

C15_BatchIsTheValidRows ==
  LET n == Len(imp.rows)
      Valid(k) == validateAndCoerceRow(imp.rows[k], k - 1).valid
      validBefore(k) == Cardinality({j \in 1..k : Valid(j)})
      failedBefore(k) == Cardinality({j \in 1..k : ~Valid(j)})
  IN /\ Len(imp.validatedRows) = validBefore(n)
     /\ Len(imp.errors) = failedBefore(n)
     /\ \A k \in 1..n :
          IF Valid(k)
          THEN imp.validatedRows[validBefore(k)] = validateAndCoerceRow(imp.rows[k], k - 1).data
          ELSE imp.errors[failedBefore(k)].row = k
     /\ imp.pc = "done" /\ imp.response.status = 200 /\ n > 0 /\ failedBefore(n) > 0
          => imp.response.errors = imp.errors

\* a row that fails ahead of a valid one, the batch at the store
C15_Witness ==
  /\ imp.pc = "insert"
  /\ Len(imp.rows) = 2
  /\ ~imp.validations[1].valid
  /\ imp.validations[2].valid
  /\ Len(imp.validatedRows) = 1
  /\ imp.errors = <<imp.validations[1].error>>

\* The sales of the groups added up in the given order.
RECURSIVE SumInOrder(_, _, _)
SumInOrder(sales, order, n) ==
  IF n = 0 THEN Zero ELSE FAdd(SumInOrder(sales, order, n - 1), sales[order[n]])

\* the sales of the endpoint's metrics, in some order of the keys
MetricsInOrder(metrics) ==
  CHOOSE seq \in [1..Cardinality(DOMAIN metrics) -> DOMAIN metrics] :
    \A z \in DOMAIN metrics : \E k \in DOMAIN seq : seq[k] = z

\* C16: the per-zip job counts add up to totalJobs and the per-zip sales add
\* up to totalSales, on the report page and in the reply of the zip-metrics
\* endpoint.  The sales may be added up in any order of the groups.
C16_PerZipSumsAreTheTotals ==
  /\ report.page.pc = "open" =>
       LET stats == report.page.zipStats
           n == Len(stats)
       IN /\ SumJobs(stats, n) = report.page.totalJobs
          /\ \E order \in Permutations(1..n) :
               SumInOrder([k \in 1..n |-> stats[k].sales], order, n) = report.page.totalSales
  /\ report.api.pc = "done" /\ report.api.response.status = 200 =>
       LET metrics == report.api.response.metrics
           keys == MetricsInOrder(metrics)
           n == Len(keys)
       IN /\ SumJobs([k \in 1..n |-> metrics[keys[k]]], n) = report.api.response.totals.totalJobs
          /\ \E order \in Permutations(1..n) :
               SumInOrder([k \in 1..n |-> metrics[keys[k]].sales], order, n)
                 = report.api.response.totals.totalSales

IsFiveDigits(z) == Len(z) = 5 /\ DigitsAt(z, 1, 5)

\* C17: the page's metrics are keyed by 5-digit postal codes, and the group
\* of a code holds every record whose zip normalizes to it: as many jobs as
\* there are such records among the date-filtered rows with a zip.
C17_GroupedByNormalizedZip ==
  report.page.pc = "open" =>
    LET kept == report.page.dateFilteredRows
        metrics == report.page.zipMetrics
        Of(z) == { k \in 1..Len(kept) :
                     Trim(kept[k].zip) # <<>> /\ normalizeZip(Trim(kept[k].zip)) = z }
    IN /\ \A z \in DOMAIN metrics : IsFiveDigits(z) /\ metrics[z].jobs = Cardinality(Of(z))
       /\ \A k \in 1..Len(kept) :
            Trim(kept[k].zip) # <<>> => normalizeZip(Trim(kept[k].zip)) \in DOMAIN metrics

\* C18: in the ranked table, for every sort field and both directions, of
\* two rows equal on the sort field the one with the larger sales comes
\* first, and with equal sales the one with the smaller postal code.
C18_TiesBySalesThenZip ==
  report.page.pc = "open" =>
    LET table == report.page.filteredAndSortedZips
        f == report.page.sortField
    IN \A a, b \in 1..Len(table) :
         a < b /\ ~FieldLess(table[a], table[b], f) /\ ~FieldLess(table[b], table[a], f)
           => /\ ~FLess(table[a].sales, table[b].sales)
              /\ table[a].sales = table[b].sales => StringLess(table[a].zip, table[b].zip)

\* C19: a row whose service_date is empty or cannot be parsed is kept by the
\* date filter, and a row with a date that parses is kept exactly when
\* start <= date <= end.
C19_DateFilterFailsOpen ==
  report.page.pc = "open" =>
    LET range == report.page.dateRange
        Parses(row) == row.service_date # <<>> /\ ParseDate(row.service_date).valid
        Day(row) == LET p == ParseDate(row.service_date) IN DaysFromCivil(p.y, p.m, p.d)
        InRange(row) ==
          /\ range.start.day < Day(row) \/ (range.start.day = Day(row) /\ range.start.ms = 0)
          /\ Day(row) <= range.end.day
        Keep(row) == ~Parses(row) \/ InRange(row)
    IN report.page.dateFilteredRows = SelectSeq(report.page.rows, Keep)

\* an unreadable date kept, a date in the range kept, a date outside dropped
C19_Witness ==
  /\ report.page.pc = "open"
  /\ Len(report.page.rows) = 3
  /\ Len(report.page.dateFilteredRows) = 2
  /\ \E k \in 1..2 : ~ParseDate(report.page.dateFilteredRows[k].service_date).valid
  /\ \E k \in 1..2 : ParseDate(report.page.dateFilteredRows[k].service_date).valid
  /\ report.page.dateRange.start.day > 0

\* C20: for a row whose address is empty after trimming, geocodeAll sends no
\* request and returns the row with needs_geocode "false" and its
\* coordinates as they were.
C20_EmptyAddressMarkedFalse ==
  PassReturned =>
    \A k \in Indices :
       Trim(makeAddress(rows[k + 1])) = <<>> /\ claimCount[k] = 1
         => /\ reqCount[k] = 0
            /\ out[k + 1].needs_geocode = "false"
            /\ out[k + 1].lat = rows[k + 1].lat
            /\ out[k + 1].lng = rows[k + 1].lng

\* A worker that holds a claimed index: from the claim to the end of the
\* row's delay.
Holding(w) == workers[w].pc \in {"fetch", "json", "pace"}

\* C21: no two workers claim the same index, every index is claimed by
\* exactly one worker by the time geocodeAll returns, and a slot of the
\* output changes only in a step of the worker that holds its index.
C21_ClaimsAreDisjoint ==
  /\ [](/\ \A k \in DOMAIN claimCount : claimCount[k] <= 1
        /\ \A v, w \in 1..Len(workers) :
              (v # w /\ Holding(v) /\ Holding(w)) => workers[v].idx # workers[w].idx
        /\ PassReturned => \A k \in Indices : claimCount[k] = 1)
  /\ [][upPc = "running" =>
          \A k \in 1..Len(out) :
             out'[k] # out[k] =>
               \E w \in 1..Len(workers) :
                  /\ workers[w].idx = k - 1
                  /\ workers[w].pc \in {"fetch", "json"}
                  /\ workers'[w].pc = "pace"]_vars

\* C21 witness: two workers hold the two indices, the second has written its
\* slot and the first is still waiting for its answer.
C21_Witness ==
  /\ upPc = "running"
  /\ Len(workers) = 2
  /\ workers[1].pc = "fetch" /\ workers[1].idx = 0
  /\ workers[2].pc = "pace" /\ workers[2].idx = 1
  /\ out[2] # rows[2]
  /\ out[1] = rows[1]

\* Claims of row indices so far: the sum of count[0..n-1].
RECURSIVE RowsClaimed(_, _)
RowsClaimed(count, n) == IF n = 0 THEN 0 ELSE RowsClaimed(count, n - 1) + count[n - 1]

\* C22: a worker claims an index only at its start or after the delay that
\* follows the row it processed before, whatever that row's outcome: a step
\* of the run claims one row for each worker it starts or wakes.
C22_DelayBeforeEveryClaim ==
  [][/\ (upPc = "running" /\ upPc' = "running") => RowsClaimed(claimCount', Len(out)) <= RowsClaimed(claimCount, Len(out)) + 1
     /\ (upPc = "idle" /\ upPc' = "running") => RowsClaimed(claimCount', Len(out')) <= Len(workers')]_vars

\* C24: the done values handed to onProgress never decrease, the k-th call
\* reports k rows done, and the last call of a run reports done = total.
C24_ProgressCountsRows ==
  /\ \A k \in 1..(Len(progressLog) - 1) : progressLog[k] <= progressLog[k + 1]
  /\ \A k \in 1..Len(progressLog) : progressLog[k] = k
  /\ PassReturned => progressLog[Len(progressLog)] = Len(rows)

\* C28: after a pass, success and failed are both >= 0, they sum to the
\* number of rows that needed geocoding at the start of the pass, and
\* success counts the rows that gained coordinates in the pass.
C28_CountsOfThePass ==
  PassReturned =>
    /\ successCount >= 0
    /\ failedCount >= 0
    /\ successCount + failedCount = rowsNeeding
    /\ successCount =
         Cardinality({k \in 1..Len(rows) : ~HasCoords(rows[k]) /\ HasCoords(out[k])})

\* C23: when a state and zip are found at the end of the input, the text
\* taken out is that occurrence at the end: street and city are those of the
\* address without its last Len(text) characters, so an equal text earlier in
\* the address stays in them.
C23_StripsTheEndOccurrence ==
  parse.pc = "returned" =>
    LET address == Trim(parse.input)
        found == StateZipMatch(address)
        remaining == Trim(SubSeq(address, 1, Len(address) - Len(found.text)))
        sc == StreetAndCity(FilterBoolean(TrimEach(SplitComma(remaining))))
    IN (parse.input # <<>> /\ found.found) =>
         /\ parse.result.street = OrUndefined(sc.street)
         /\ parse.result.city = OrUndefined(sc.city)

\* The geocodeRows pass of file f is in flight.
GeocodingRows(f) == files[f].pc \in {"fetch", "json", "pace"}

PassesInFlight ==
  Cardinality({f \in Uploads : GeocodingRows(f)}) + (IF upPc = "running" THEN 1 ELSE 0)

\* C27: while a pass started by addFiles or startUpload is in flight
\* isGeocoding is true and no second pass runs, and when no call of either is
\* between its start and its end isGeocoding is false.
C27_BusyWhilePassInFlight ==
  /\ PassesInFlight > 0 => isGeocoding
  /\ PassesInFlight <= 1
  /\ (upPc = "idle" /\ \A f \in Uploads : files[f].pc \in {"idle", "parsing", "upsert", "done"})
       => ~isGeocoding

-----------------------------------------------------------------------------
(* Observations on geocode-run requests *)

\* The record the loop stands on has its coordinates in the store.
CoordinatesStored(table, id) ==
  /\ table[id].latitude.def
  /\ table[id].longitude.def
  /\ table[id].geocode_status = "OK"
  /\ ~table[id].needs_geocode

\* C29: in a geocode-run request every fetched record is counted once, as a
\* success or as a failure: the two counters add up to the records the loop
\* has passed, a round raises exactly one of them by one, success only in a
\* round that stored the record's coordinates, and a record with an empty
\* address, without a result or whose update the store refused leaves the
\* stored coordinates as they were and counts as failed.  The response of a
\* completed request reports attempted = success + failed = the number of
\* records fetched, which is at most the clamped limit.
C29_AttemptedIsSuccessPlusFailed ==
  /\ [](/\ runPc \in {"loop", "count"} => /\ success + failed = pos - 1
                                          /\ Len(fetched) <= limit
                                          /\ limit \in 1..LimitCap
        /\ (runPc = "idle" /\ response.status = 200 /\ response.attempted > 0) =>
             /\ response.attempted = response.success + response.failed
             /\ response.attempted = Len(fetched)
             /\ response.attempted <= limit)
  /\ [][runPc = "loop" =>
          LET id == fetched[pos].id IN
          /\ success' + failed' = success + failed + 1
          /\ success' \in {success, success + 1}
          /\ success' = success + 1 => CoordinatesStored(jobs', id)
          /\ failed' = failed + 1 =>
               /\ jobs'[id].latitude = jobs[id].latitude
               /\ jobs'[id].longitude = jobs[id].longitude
          /\ (AddressString(fetched[pos].job) = <<>>) => failed' = failed + 1]_vars

\* A request that fetched two records has answered: one stored, one failed.
C29_Witness ==
  /\ runPc = "idle"
  /\ response.status = 200
  /\ response.attempted = 2
  /\ response.success = 1
  /\ response.failed = 1
  /\ Len(fetched) = 2
  /\ limit >= 2

-----------------------------------------------------------------------------
(* Observations on the row operations *)

\* C25: the update that ends a retryRow call leaves the number of rows as it
\* is and changes no row but the one whose address the call sent, whatever
\* removeRow and clearFiles did to the table since the call started.
C25_RetryReachesItsRow ==
  [][(retry.pc = "json" /\ retry'.pc = "idle") =>
       /\ Len(csvData') = Len(csvData)
       /\ \A k \in 1..Len(csvData) :
            csvData'[k] # csvData[k] => csvData[k].name = retry.name]_vars

\* C26: once a startUpload pass has returned, the last cell edit, removal or
\* retry applied to csvData while that pass was in flight shows in csvData:
\* the edited cell holds the value, the removed row is gone, the retried row
\* has coordinates.
C26_EditsSurviveThePass ==
  (PassReturned /\ lastEdit.during = passNo) =>
    CASE lastEdit.kind = "cell" ->
           \E k \in 1..Len(csvData) :
             csvData[k].name = lastEdit.name /\ csvData[k][lastEdit.column] = lastEdit.value
      [] lastEdit.kind = "remove" ->
           \A k \in 1..Len(csvData) : csvData[k].name # lastEdit.name
      [] lastEdit.kind = "retry" ->
           \E k \in 1..Len(csvData) :
             /\ csvData[k].name = lastEdit.name
             /\ csvData[k].lat # ""
             /\ csvData[k].lng # ""
      [] OTHER -> TRUE

-----------------------------------------------------------------------------
(* Observations on repeated geocode-run requests *)

\* Record k is among the records of the request in progress.
BeingAttempted(k) ==
  /\ runPc \in {"loop", "count"}
  /\ \E p \in 1..Len(fetched) : fetched[p].id = k

\* C30: with requests repeated without end under one limit, a record that
\* lacks coordinates or is flagged is at some later time among the records a
\* request works on.
C30_EveryRecordIsAttempted ==
  \A k \in 1..MaxJobs :
    (k <= Len(jobs) /\ NeedsRun(jobs[k])) ~> BeingAttempted(k)

====
